---- MODULE Spec2Model ----
(***************************************************************************)
(* A model of Class_VDM (src/src/models/ClassPotentialVDM.cpp), the        *)
(* vector-dark-matter potential of BSMPT: parameter ingestion, curvature   *)
(* tensor population, counterterm computation and the rotation of the      *)
(* triple Higgs couplings, together with the lifecycle gates               *)
(* SetCurvatureDone and CalcCouplingsdone; and of the program PlotEWBG_mu   *)
(* (src/src/prog/PlotEWBG_mu.cpp): its command line, its read loop and     *)
(* its scale scan.                                                         *)
(*                                                                         *)
(* A double is an exact fraction <<n, d>> in lowest terms with d >= 0.     *)
(* d = 0 stands for the non-finite doubles: <<1,0>> is +Inf, <<-1,0>> is   *)
(* -Inf and <<0,0>> is NaN.  Rounding and the sign of zero are not         *)
(* represented.  Vectors are functions over 0..n-1 so that indices read    *)
(* as in the source; tensors hold the entries the code assigns, every      *)
(* other entry being the zero written by initVectors.                      *)
(***************************************************************************)
EXTENDS Integers, Sequences, FiniteSets, TLC

\* ------------------------------------------------------------------------
\* Model dimensions (constructor, lines 43-58)
\* ------------------------------------------------------------------------
NNeutralHiggs == 4
NChargedHiggs == 2
nPar == 6
nParCT == 11
nVEV == 2
NHiggs == NNeutralHiggs + NChargedHiggs
NGauge == 5
\* The two positions exchanged: VevOrder[0] = 4, VevOrder[1] = 2.
VevOrder_Swapped == [k \in 0 .. (nVEV - 1) |-> IF k = 0 THEN 4 ELSE 2]

\* VevOrder[0] = 2; VevOrder[1] = 4;   (lines 57-58)
VevOrder == [k \in 0 .. (nVEV - 1) |-> IF k = 0 THEN 2 ELSE 4]

HiggsIdx == 0 .. (NHiggs - 1)

\* ------------------------------------------------------------------------
\* double arithmetic
\* ------------------------------------------------------------------------
Abs(x) == IF x < 0 THEN -x ELSE x

Sgn(x) == IF x < 0 THEN -1 ELSE IF x > 0 THEN 1 ELSE 0

RECURSIVE GCD(_, _)
GCD(a, b) == IF b = 0 THEN a ELSE GCD(b, a % b)

Norm(n, d) ==
    IF d = 0 THEN <<Sgn(n), 0>>
    ELSE LET s == IF d < 0 THEN -1 ELSE 1
             g == GCD(Abs(n), Abs(d))
         IN  <<(s * n) \div g, (s * d) \div g>>

R(n) == <<n, 1>>
Q(n, d) == Norm(n, d)
Zero == <<0, 1>>
NaN == <<0, 0>>
PosInf == <<1, 0>>

IsFinite(a) == a[2] # 0

Neg(a) == <<-a[1], a[2]>>

Add(a, b) ==
    IF a[2] = 0 /\ b[2] = 0 THEN (IF a[1] = b[1] THEN a ELSE NaN)
    ELSE IF a[2] = 0 THEN a
    ELSE IF b[2] = 0 THEN b
    ELSE LET g == GCD(a[2], b[2])
         IN  Norm(a[1] * (b[2] \div g) + b[1] * (a[2] \div g), (a[2] \div g) * b[2])

Sub(a, b) == Add(a, Neg(b))

Mul(a, b) == Norm(a[1] * b[1], a[2] * b[2])

Div(a, b) ==
    LET s == IF b[1] < 0 THEN -1 ELSE 1
    IN  Norm(s * a[1] * b[2], a[2] * Abs(b[1]))

\* cos and sin of <cmath>.  The angles the inputs use are tabulated with exact
\* Pythagorean values: 0, an angle of about 0.64 rad (cos 4/5, sin 3/5) and its
\* negative; every other finite argument gets one fixed point of the unit
\* circle, a non-finite argument gives NaN.
Angle35 == Q(16, 25)

Cos(a) ==
    IF ~IsFinite(a) THEN NaN
    ELSE IF a = Zero THEN R(1)
    ELSE IF a = Angle35 \/ a = Neg(Angle35) THEN Q(4, 5)
    ELSE Q(-5, 13)

Sin(a) ==
    IF ~IsFinite(a) THEN NaN
    ELSE IF a = Zero THEN Zero
    ELSE IF a = Angle35 THEN Q(3, 5)
    ELSE IF a = Neg(Angle35) THEN Q(-3, 5)
    ELSE Q(12, 13)

\* std::complex<double>: the pair <<re, im>> of two doubles.
Cplx(x) == <<x, Zero>>
One == Cplx(R(1))
MinusOne == Cplx(R(-1))
II == <<Zero, R(1)>>
MinusII == <<Zero, R(-1)>>
conj(a) == <<a[1], Neg(a[2])>>
CMul(a, b) ==
    <<Sub(Mul(a[1], b[1]), Mul(a[2], b[2])), Add(Mul(a[1], b[2]), Mul(a[2], b[1]))>>
\* complex / double and complex * double
CDivReal(a, x) == <<Div(a[1], x), Div(a[2], x)>>
CMulReal(a, x) == <<Mul(a[1], x), Mul(a[2], x)>>

\* std::vector<double>(n, x)
Vec(n, x) == [i \in 0 .. (n - 1) |-> x]
Size(vec) == Cardinality(DOMAIN vec)
EmptyVec == Vec(0, Zero)

\* A tensor entry: the assigned value, or the zero of initVectors.
At(T, t) == IF t \in DOMAIN T THEN T[t] ELSE Zero

\* ------------------------------------------------------------------------
\* The instance
\* ------------------------------------------------------------------------
\* Class_VDM(smConstants): the dimensions are set, the gates of the base
\* class are false, no vector is allocated yet.  The double members have no
\* initialiser in the constructor: they hold an indeterminate value g.
Class_VDM(smConstants, g) ==
    [ SMConstants |-> smConstants,
      SetCurvatureDone |-> FALSE,
      CalcCouplingsdone |-> FALSE,
      UseIndexCol |-> FALSE,
      MH1 |-> g, MH2 |-> g, MX |-> g, alpha |-> g, v |-> g, vs |-> g, gX |-> g,
      lambdaH |-> g, lambdaS |-> g, kappa |-> g, muHSq |-> g, muSSq |-> g,
      scale |-> g,
      vevTreeMin |-> EmptyVec,
      vevTree |-> EmptyVec,
      HiggsVev |-> EmptyVec,
      Curvature_Higgs_L1 |-> EmptyVec,
      Curvature_Higgs_L2 |-> <<>>,
      Curvature_Higgs_L4 |-> <<>>,
      Curvature_Gauge_G2H2 |-> <<>>,
      Curvature_Lepton_F2H1 |-> <<>>,
      Curvature_Quark_F2H1 |-> <<>>,
      dmuHSq |-> g, dlambdaH |-> g, dkappa |-> g, dmuSSq |-> g, dlambdaS |-> g,
      dT1 |-> g, dT2 |-> g, dT3 |-> g, dT4 |-> g, dT5 |-> g, dT6 |-> g,
      Curvature_Higgs_CT_L1 |-> EmptyVec,
      Curvature_Higgs_CT_L2 |-> <<>>,
      Curvature_Higgs_CT_L4 |-> <<>>,
      HiggsRotationMatrix |-> <<>>,
      LambdaHiggs_3 |-> <<>>,
      LambdaHiggs_3_CT |-> <<>>,
      TripleHiggsCorrectionsCWPhysical |-> <<>>,
      TripleHiggsCorrectionsTreePhysical |-> <<>>,
      TripleHiggsCorrectionsCTPhysical |-> <<>> ]

\* ------------------------------------------------------------------------
\* ReadAndSet: the record and its extraction
\* ------------------------------------------------------------------------
\* A record is a sequence of whitespace-separated tokens; a token is a number
\* or a word that is no number.
Num(x) == <<"num", x>>
Word == <<"word", Zero>>

\* std::stringstream ss(linestr)
StringStream == [pos |-> 1, fail |-> FALSE]

\* ss >> tmp.  A failed stream extracts nothing and leaves tmp alone; at the
\* end of the record the stream fails and tmp is left alone; a token that is
\* no number fails the stream and stores zero.
Extract(ss, linestr, tmp) ==
    IF ss.fail THEN [ss |-> ss, tmp |-> tmp]
    ELSE IF ss.pos > Len(linestr)
         THEN [ss |-> [ss EXCEPT !.fail = TRUE], tmp |-> tmp]
    ELSE IF linestr[ss.pos][1] # "num"
         THEN [ss |-> [ss EXCEPT !.fail = TRUE], tmp |-> Zero]
    ELSE [ss |-> [ss EXCEPT !.pos = @ + 1], tmp |-> linestr[ss.pos][2]]

\* The assignment chain in the order of the commented-out block of lines
\* 181-192 (MH1, MH2, MX, v, alpha, gX).
ReadAndSet_Store_CommentedOrder(o, k, tmp) ==
    IF k = 1 THEN [o EXCEPT !.MH1 = tmp]
    ELSE IF k = 2 THEN [o EXCEPT !.MH2 = tmp]
    ELSE IF k = 3 THEN [o EXCEPT !.MX = tmp]
    ELSE IF k = 4 THEN [o EXCEPT !.v = tmp]
    ELSE IF k = 5 THEN [o EXCEPT !.alpha = tmp]
    ELSE IF k = 6 THEN [o EXCEPT !.gX = tmp]
    ELSE o

\* if (k == 1) MH1 = tmp; else if (k == 2) MH2 = tmp; ...   (lines 195-206)
ReadAndSet_Store(o, k, tmp) ==
    IF k = 1 THEN [o EXCEPT !.MH1 = tmp]
    ELSE IF k = 2 THEN [o EXCEPT !.MH2 = tmp]
    ELSE IF k = 3 THEN [o EXCEPT !.MX = tmp]
    ELSE IF k = 4 THEN [o EXCEPT !.alpha = tmp]
    ELSE IF k = 5 THEN [o EXCEPT !.v = tmp]
    ELSE IF k = 6 THEN [o EXCEPT !.gX = tmp]
    ELSE o

\* for (k = 1; k < 7; k++) { ss >> tmp; <store field k> }
RECURSIVE ReadFields(_, _, _, _, _)
ReadFields(o, k, ss, linestr, tmp) ==
    IF ~(k < 7) THEN o
    ELSE LET e == Extract(ss, linestr, tmp)
         IN  ReadFields(ReadAndSet_Store(o, k, e.tmp), k + 1, e.ss, linestr, e.tmp)

\* ------------------------------------------------------------------------
\* SetCurvatureArrays
\* ------------------------------------------------------------------------
\* MinimizeOrderVEV of the base class: the nVEV values go to the positions
\* VevOrder names, every other position is zero.
MinimizeOrderVEV(vevminimizer) ==
    [i \in HiggsIdx |->
        IF \E k \in DOMAIN VevOrder : VevOrder[k] = i
        THEN vevminimizer[CHOOSE k \in DOMAIN VevOrder : VevOrder[k] = i]
        ELSE Zero]

\* initVectors of the base class: every tensor is allocated and zeroed.
initVectors(o) ==
    [o EXCEPT !.HiggsVev = Vec(NHiggs, Zero),
              !.Curvature_Higgs_L1 = Vec(NHiggs, Zero),
              !.Curvature_Higgs_L2 = <<>>,
              !.Curvature_Higgs_L4 = <<>>,
              !.Curvature_Gauge_G2H2 = <<>>,
              !.Curvature_Lepton_F2H1 = <<>>,
              !.Curvature_Quark_F2H1 = <<>>,
              !.Curvature_Higgs_CT_L1 = Vec(NHiggs, Zero),
              !.Curvature_Higgs_CT_L2 = <<>>,
              !.Curvature_Higgs_CT_L4 = <<>>]

\* Curvature_Higgs_L2[..] = -muHSq;   (lines 1085-1088 of ClassPotentialVDM.cpp)
L2_muHSq ==
    {<<0,0>>, <<1,1>>, <<2,2>>, <<3,3>>}

\* Curvature_Higgs_L2[..] = -muSSq;   (lines 1089-1090 of ClassPotentialVDM.cpp)
L2_muSSq ==
    {<<4,4>>, <<5,5>>}

\* Curvature_Higgs_L4[..] = 0.3e1 * 0.2e1 * lambdaH;   (lines 1092-1149 of ClassPotentialVDM.cpp)
L4_6lambdaH ==
    {<<0,0,0,0>>, <<1,1,1,1>>, <<2,2,2,2>>, <<3,3,3,3>>}

\* Curvature_Higgs_L4[..] = 0.2e1 * lambdaH;   (lines 1093-1148 of ClassPotentialVDM.cpp)
L4_2lambdaH ==
    {<<0,0,1,1>>, <<0,0,2,2>>, <<0,0,3,3>>, <<0,1,0,1>>, <<0,1,1,0>>,
     <<0,2,0,2>>, <<0,2,2,0>>, <<0,3,0,3>>, <<0,3,3,0>>, <<1,0,0,1>>,
     <<1,0,1,0>>, <<1,1,0,0>>, <<1,1,2,2>>, <<1,1,3,3>>, <<1,2,1,2>>,
     <<1,2,2,1>>, <<1,3,1,3>>, <<1,3,3,1>>, <<2,0,0,2>>, <<2,0,2,0>>,
     <<2,1,1,2>>, <<2,1,2,1>>, <<2,2,0,0>>, <<2,2,1,1>>, <<2,2,3,3>>,
     <<2,3,2,3>>, <<2,3,3,2>>, <<3,0,0,3>>, <<3,0,3,0>>, <<3,1,1,3>>,
     <<3,1,3,1>>, <<3,2,2,3>>, <<3,2,3,2>>, <<3,3,0,0>>, <<3,3,1,1>>,
     <<3,3,2,2>>}

\* Curvature_Higgs_L4[..] = kappa;   (lines 1096-1185 of ClassPotentialVDM.cpp)
L4_kappa ==
    {<<0,0,4,4>>, <<0,0,5,5>>, <<0,4,0,4>>, <<0,4,4,0>>, <<0,5,0,5>>,
     <<0,5,5,0>>, <<1,1,4,4>>, <<1,1,5,5>>, <<1,4,1,4>>, <<1,4,4,1>>,
     <<1,5,1,5>>, <<1,5,5,1>>, <<2,2,4,4>>, <<2,2,5,5>>, <<2,4,2,4>>,
     <<2,4,4,2>>, <<2,5,2,5>>, <<2,5,5,2>>, <<3,3,4,4>>, <<3,3,5,5>>,
     <<3,4,3,4>>, <<3,4,4,3>>, <<3,5,3,5>>, <<3,5,5,3>>, <<4,0,0,4>>,
     <<4,0,4,0>>, <<4,1,1,4>>, <<4,1,4,1>>, <<4,2,2,4>>, <<4,2,4,2>>,
     <<4,3,3,4>>, <<4,3,4,3>>, <<4,4,0,0>>, <<4,4,1,1>>, <<4,4,2,2>>,
     <<4,4,3,3>>, <<5,0,0,5>>, <<5,0,5,0>>, <<5,1,1,5>>, <<5,1,5,1>>,
     <<5,2,2,5>>, <<5,2,5,2>>, <<5,3,3,5>>, <<5,3,5,3>>, <<5,5,0,0>>,
     <<5,5,1,1>>, <<5,5,2,2>>, <<5,5,3,3>>}

\* Curvature_Higgs_L4[..] = 0.3e1 * 0.2e1 * lambdaS;   (lines 1168-1187 of ClassPotentialVDM.cpp)
L4_6lambdaS ==
    {<<4,4,4,4>>, <<5,5,5,5>>}

\* Curvature_Higgs_L4[..] = 0.2e1 * lambdaS;   (lines 1169-1186 of ClassPotentialVDM.cpp)
L4_2lambdaS ==
    {<<4,4,5,5>>, <<4,5,4,5>>, <<4,5,5,4>>, <<5,4,4,5>>, <<5,4,5,4>>,
     <<5,5,4,4>>}

\* Curvature_Gauge_G2H2[..] = C_g * C_g / 0.2e1;   (lines 1195-1214 of ClassPotentialVDM.cpp)
G2H2_gg ==
    {<<0,0,0,0>>, <<0,0,1,1>>, <<0,0,2,2>>, <<0,0,3,3>>, <<1,1,0,0>>,
     <<1,1,1,1>>, <<1,1,2,2>>, <<1,1,3,3>>, <<2,2,0,0>>, <<2,2,1,1>>,
     <<2,2,2,2>>, <<2,2,3,3>>}

\* Curvature_Gauge_G2H2[..] = C_gs * C_g / 0.2e1;   (lines 1199-1228 of ClassPotentialVDM.cpp)
G2H2_gsg ==
    {<<0,3,0,2>>, <<0,3,1,3>>, <<0,3,2,0>>, <<0,3,3,1>>, <<1,3,0,3>>,
     <<1,3,3,0>>, <<2,3,0,0>>, <<2,3,1,1>>, <<3,0,0,2>>, <<3,0,1,3>>,
     <<3,0,2,0>>, <<3,0,3,1>>, <<3,1,0,3>>, <<3,1,3,0>>, <<3,2,0,0>>,
     <<3,2,1,1>>}

\* Curvature_Gauge_G2H2[..] = -C_gs * C_g / 0.2e1;   (lines 1208-1230 of ClassPotentialVDM.cpp)
G2H2_mgsg ==
    {<<1,3,1,2>>, <<1,3,2,1>>, <<2,3,2,2>>, <<2,3,3,3>>, <<3,1,1,2>>,
     <<3,1,2,1>>, <<3,2,2,2>>, <<3,2,3,3>>}

\* Curvature_Gauge_G2H2[..] = C_gs * C_gs / 0.2e1;   (lines 1231-1234 of ClassPotentialVDM.cpp)
G2H2_gsgs ==
    {<<3,3,0,0>>, <<3,3,1,1>>, <<3,3,2,2>>, <<3,3,3,3>>}

\* Curvature_Gauge_G2H2[..] = 2 * gX * gX;   (lines 1235-1236 of ClassPotentialVDM.cpp)
G2H2_gXgX ==
    {<<4,4,4,4>>, <<4,4,5,5>>}

\* Lines 1085-1090 without the minus signs.
Curvature_Higgs_L2_of_PlusSign(o) ==
    [t \in L2_muHSq \cup L2_muSSq |->
        IF t \in L2_muHSq THEN o.muHSq ELSE o.muSSq]

\* Curvature_Higgs_L2 as assigned in lines 1085-1090
Curvature_Higgs_L2_of(o) ==
    [t \in L2_muHSq \cup L2_muSSq |->
        IF t \in L2_muHSq THEN Neg(o.muHSq) ELSE Neg(o.muSSq)]

\* Curvature_Higgs_L4 as assigned in lines 1092-1187
Curvature_Higgs_L4_of(o) ==
    [t \in L4_6lambdaH \cup L4_2lambdaH \cup L4_kappa \cup L4_6lambdaS
            \cup L4_2lambdaS |->
        IF t \in L4_6lambdaH THEN Mul(Mul(R(3), R(2)), o.lambdaH)
        ELSE IF t \in L4_2lambdaH THEN Mul(R(2), o.lambdaH)
        ELSE IF t \in L4_kappa THEN o.kappa
        ELSE IF t \in L4_6lambdaS THEN Mul(Mul(R(3), R(2)), o.lambdaS)
        ELSE Mul(R(2), o.lambdaS)]

\* Curvature_Gauge_G2H2 as assigned in lines 1189-1236
Curvature_Gauge_G2H2_of(o) ==
    LET C_g == o.SMConstants.C_g
        C_gs == o.SMConstants.C_gs
    IN  [t \in G2H2_gg \cup G2H2_gsg \cup G2H2_mgsg \cup G2H2_gsgs
                \cup G2H2_gXgX |->
            IF t \in G2H2_gg THEN Div(Mul(C_g, C_g), R(2))
            ELSE IF t \in G2H2_gsg THEN Div(Mul(C_gs, C_g), R(2))
            ELSE IF t \in G2H2_mgsg THEN Div(Mul(Neg(C_gs), C_g), R(2))
            ELSE IF t \in G2H2_gsgs THEN Div(Mul(C_gs, C_gs), R(2))
            ELSE Mul(Mul(R(2), o.gX), o.gX)]

\* One Yukawa assignment: the unit c (1, -1, II or -II), the CKM element V it
\* is multiplied with ("" for none; conj: its conjugate, multiplied last)
\* and the fermion mass M, both named as in ISMConstants.
Yuk(c, V, cj, M) == [c |-> c, V |-> V, conj |-> cj, M |-> M]

\* Curvature_Lepton_F2H1[a][b][i] = <c> [* V] / v * SMConstants.<M> [* conj(V)];   (lines 1249-1272)
Lepton_F2H1_Terms ==
    <<0,1,2>> :> Yuk(One, "", FALSE, "C_MassElectron") @@
    <<0,1,3>> :> Yuk(II, "", FALSE, "C_MassElectron") @@
    <<1,0,2>> :> Yuk(One, "", FALSE, "C_MassElectron") @@
    <<1,0,3>> :> Yuk(II, "", FALSE, "C_MassElectron") @@
    <<1,6,0>> :> Yuk(One, "", FALSE, "C_MassElectron") @@
    <<1,6,1>> :> Yuk(II, "", FALSE, "C_MassElectron") @@
    <<2,3,2>> :> Yuk(One, "", FALSE, "C_MassMu") @@
    <<2,3,3>> :> Yuk(II, "", FALSE, "C_MassMu") @@
    <<3,2,2>> :> Yuk(One, "", FALSE, "C_MassMu") @@
    <<3,2,3>> :> Yuk(II, "", FALSE, "C_MassMu") @@
    <<3,7,0>> :> Yuk(One, "", FALSE, "C_MassMu") @@
    <<3,7,1>> :> Yuk(II, "", FALSE, "C_MassMu") @@
    <<4,5,2>> :> Yuk(One, "", FALSE, "C_MassTau") @@
    <<4,5,3>> :> Yuk(II, "", FALSE, "C_MassTau") @@
    <<5,4,2>> :> Yuk(One, "", FALSE, "C_MassTau") @@
    <<5,4,3>> :> Yuk(II, "", FALSE, "C_MassTau") @@
    <<5,8,0>> :> Yuk(One, "", FALSE, "C_MassTau") @@
    <<5,8,1>> :> Yuk(II, "", FALSE, "C_MassTau") @@
    <<6,1,0>> :> Yuk(One, "", FALSE, "C_MassElectron") @@
    <<6,1,1>> :> Yuk(II, "", FALSE, "C_MassElectron") @@
    <<7,3,0>> :> Yuk(One, "", FALSE, "C_MassMu") @@
    <<7,3,1>> :> Yuk(II, "", FALSE, "C_MassMu") @@
    <<8,5,0>> :> Yuk(One, "", FALSE, "C_MassTau") @@
    <<8,5,1>> :> Yuk(II, "", FALSE, "C_MassTau")

\* Curvature_Quark_F2H1[a][b][i] = <c> [* V] / v * SMConstants.<M> [* conj(V)];   (lines 1274-1385)
Quark_F2H1_Terms ==
    <<0,6,2>> :> Yuk(One, "", FALSE, "C_MassUp") @@
    <<0,6,3>> :> Yuk(MinusII, "", FALSE, "C_MassUp") @@
    <<0,9,0>> :> Yuk(MinusOne, "C_Vud", TRUE, "C_MassUp") @@
    <<0,9,1>> :> Yuk(II, "C_Vud", TRUE, "C_MassUp") @@
    <<0,10,1>> :> Yuk(II, "C_Vus", TRUE, "C_MassUp") @@
    <<0,11,1>> :> Yuk(II, "C_Vub", TRUE, "C_MassUp") @@
    <<1,7,2>> :> Yuk(One, "", FALSE, "C_MassCharm") @@
    <<1,7,3>> :> Yuk(MinusII, "", FALSE, "C_MassCharm") @@
    <<1,9,1>> :> Yuk(II, "C_Vcd", TRUE, "C_MassCharm") @@
    <<1,10,1>> :> Yuk(II, "C_Vcs", TRUE, "C_MassCharm") @@
    <<1,11,1>> :> Yuk(II, "C_Vcb", TRUE, "C_MassCharm") @@
    <<2,8,2>> :> Yuk(One, "", FALSE, "C_MassTop") @@
    <<2,8,3>> :> Yuk(MinusII, "", FALSE, "C_MassTop") @@
    <<2,9,1>> :> Yuk(II, "C_Vtd", TRUE, "C_MassTop") @@
    <<2,10,1>> :> Yuk(II, "C_Vts", TRUE, "C_MassTop") @@
    <<2,11,1>> :> Yuk(II, "C_Vtb", TRUE, "C_MassTop") @@
    <<3,6,0>> :> Yuk(One, "C_Vud", FALSE, "C_MassDown") @@
    <<3,6,1>> :> Yuk(II, "C_Vud", FALSE, "C_MassDown") @@
    <<3,7,0>> :> Yuk(One, "C_Vcd", FALSE, "C_MassDown") @@
    <<3,7,1>> :> Yuk(II, "C_Vcd", FALSE, "C_MassDown") @@
    <<3,8,0>> :> Yuk(One, "C_Vtd", FALSE, "C_MassDown") @@
    <<3,8,1>> :> Yuk(II, "C_Vtd", FALSE, "C_MassDown") @@
    <<3,9,2>> :> Yuk(One, "", FALSE, "C_MassDown") @@
    <<3,9,3>> :> Yuk(II, "", FALSE, "C_MassDown") @@
    <<4,6,0>> :> Yuk(One, "C_Vus", FALSE, "C_MassStrange") @@
    <<4,6,1>> :> Yuk(II, "C_Vus", FALSE, "C_MassStrange") @@
    <<4,7,0>> :> Yuk(One, "C_Vcs", FALSE, "C_MassStrange") @@
    <<4,7,1>> :> Yuk(II, "C_Vcs", FALSE, "C_MassStrange") @@
    <<4,8,0>> :> Yuk(One, "C_Vts", FALSE, "C_MassStrange") @@
    <<4,8,1>> :> Yuk(II, "C_Vts", FALSE, "C_MassStrange") @@
    <<4,10,2>> :> Yuk(One, "", FALSE, "C_MassStrange") @@
    <<4,10,3>> :> Yuk(II, "", FALSE, "C_MassStrange") @@
    <<5,6,0>> :> Yuk(One, "C_Vub", FALSE, "C_MassBottom") @@
    <<5,6,1>> :> Yuk(II, "C_Vub", FALSE, "C_MassBottom") @@
    <<5,7,0>> :> Yuk(One, "C_Vcb", FALSE, "C_MassBottom") @@
    <<5,7,1>> :> Yuk(II, "C_Vcb", FALSE, "C_MassBottom") @@
    <<5,8,0>> :> Yuk(One, "C_Vtb", FALSE, "C_MassBottom") @@
    <<5,8,1>> :> Yuk(II, "C_Vtb", FALSE, "C_MassBottom") @@
    <<5,11,2>> :> Yuk(One, "", FALSE, "C_MassBottom") @@
    <<5,11,3>> :> Yuk(II, "", FALSE, "C_MassBottom") @@
    <<6,0,2>> :> Yuk(One, "", FALSE, "C_MassUp") @@
    <<6,0,3>> :> Yuk(MinusII, "", FALSE, "C_MassUp") @@
    <<6,3,0>> :> Yuk(One, "C_Vud", FALSE, "C_MassDown") @@
    <<6,3,1>> :> Yuk(II, "C_Vud", FALSE, "C_MassDown") @@
    <<6,4,0>> :> Yuk(One, "C_Vus", FALSE, "C_MassStrange") @@
    <<6,4,1>> :> Yuk(II, "C_Vus", FALSE, "C_MassStrange") @@
    <<6,5,0>> :> Yuk(One, "C_Vub", FALSE, "C_MassBottom") @@
    <<6,5,1>> :> Yuk(II, "C_Vub", FALSE, "C_MassBottom") @@
    <<7,1,2>> :> Yuk(One, "", FALSE, "C_MassCharm") @@
    <<7,1,3>> :> Yuk(MinusII, "", FALSE, "C_MassCharm") @@
    <<7,3,0>> :> Yuk(One, "C_Vcd", FALSE, "C_MassDown") @@
    <<7,3,1>> :> Yuk(II, "C_Vcd", FALSE, "C_MassDown") @@
    <<7,4,0>> :> Yuk(One, "C_Vcs", FALSE, "C_MassStrange") @@
    <<7,4,1>> :> Yuk(II, "C_Vcs", FALSE, "C_MassStrange") @@
    <<7,5,0>> :> Yuk(One, "C_Vcb", FALSE, "C_MassBottom") @@
    <<7,5,1>> :> Yuk(II, "C_Vcb", FALSE, "C_MassBottom") @@
    <<8,2,2>> :> Yuk(One, "", FALSE, "C_MassTop") @@
    <<8,2,3>> :> Yuk(MinusII, "", FALSE, "C_MassTop") @@
    <<8,3,0>> :> Yuk(One, "C_Vtd", FALSE, "C_MassDown") @@
    <<8,3,1>> :> Yuk(II, "C_Vtd", FALSE, "C_MassDown") @@
    <<8,4,0>> :> Yuk(One, "C_Vts", FALSE, "C_MassStrange") @@
    <<8,4,1>> :> Yuk(II, "C_Vts", FALSE, "C_MassStrange") @@
    <<8,5,0>> :> Yuk(One, "C_Vtb", FALSE, "C_MassBottom") @@
    <<8,5,1>> :> Yuk(II, "C_Vtb", FALSE, "C_MassBottom") @@
    <<9,0,0>> :> Yuk(MinusOne, "C_Vud", TRUE, "C_MassUp") @@
    <<9,0,1>> :> Yuk(II, "C_Vud", TRUE, "C_MassUp") @@
    <<9,1,1>> :> Yuk(II, "C_Vcd", TRUE, "C_MassCharm") @@
    <<9,2,1>> :> Yuk(II, "C_Vtd", TRUE, "C_MassTop") @@
    <<9,3,2>> :> Yuk(One, "", FALSE, "C_MassDown") @@
    <<9,3,3>> :> Yuk(II, "", FALSE, "C_MassDown") @@
    <<10,0,1>> :> Yuk(II, "C_Vus", TRUE, "C_MassUp") @@
    <<10,1,1>> :> Yuk(II, "C_Vcs", TRUE, "C_MassCharm") @@
    <<10,2,1>> :> Yuk(II, "C_Vts", TRUE, "C_MassTop") @@
    <<10,4,2>> :> Yuk(One, "", FALSE, "C_MassStrange") @@
    <<10,4,3>> :> Yuk(II, "", FALSE, "C_MassStrange") @@
    <<11,0,1>> :> Yuk(II, "C_Vub", TRUE, "C_MassUp") @@
    <<11,1,1>> :> Yuk(II, "C_Vcb", TRUE, "C_MassCharm") @@
    <<11,2,1>> :> Yuk(II, "C_Vtb", TRUE, "C_MassTop") @@
    <<11,5,2>> :> Yuk(One, "", FALSE, "C_MassBottom") @@
    <<11,5,3>> :> Yuk(II, "", FALSE, "C_MassBottom")

\* The value one Yukawa assignment stores: c [* V] / v * M [* conj(V)].
YukawaValue(o, e) ==
    LET pre == IF e.V # "" /\ ~e.conj THEN CMul(e.c, o.SMConstants[e.V]) ELSE e.c
        val == CMulReal(CDivReal(pre, o.v), o.SMConstants[e.M])
    IN  IF e.conj THEN CMul(val, conj(o.SMConstants[e.V])) ELSE val

\* Lines 1249-1272 with only the entries [a][b][i] of a <= b assigned.
Curvature_Lepton_F2H1_of_UpperOnly(o) ==
    [t \in {u \in DOMAIN Lepton_F2H1_Terms : u[1] <= u[2]} |->
        YukawaValue(o, Lepton_F2H1_Terms[t])]

\* Curvature_Lepton_F2H1 as assigned in lines 1249-1272
Curvature_Lepton_F2H1_of(o) ==
    [t \in DOMAIN Lepton_F2H1_Terms |-> YukawaValue(o, Lepton_F2H1_Terms[t])]

\* Curvature_Quark_F2H1 as assigned in lines 1274-1385
Curvature_Quark_F2H1_of(o) ==
    [t \in DOMAIN Quark_F2H1_Terms |-> YukawaValue(o, Quark_F2H1_Terms[t])]

\* SetCurvatureArrays without the copy of lines 777-778: HiggsVev keeps the
\* zeros of initVectors.
SetCurvatureArrays_StaleVev(o, oob) ==
    LET o2 == initVectors(o)
    IN  [o2 EXCEPT !.Curvature_Higgs_L2 = Curvature_Higgs_L2_of(o2),
                   !.Curvature_Higgs_L4 = Curvature_Higgs_L4_of(o2),
                   !.Curvature_Gauge_G2H2 = Curvature_Gauge_G2H2_of(o2),
                   !.Curvature_Lepton_F2H1 = Curvature_Lepton_F2H1_of(o2),
                   !.Curvature_Quark_F2H1 = Curvature_Quark_F2H1_of(o2),
                   !.SetCurvatureDone = TRUE]

\* SetCurvatureArrays that, having rewritten the tensors, marks the couplings
\* derived from the old ones as not computed.
SetCurvatureArrays_ResetsCouplings(o, oob) ==
    LET o1 == initVectors(o)
        o2 == [o1 EXCEPT !.HiggsVev =
                  [i \in HiggsIdx |->
                      IF i \in DOMAIN o.vevTree THEN o.vevTree[i] ELSE oob]]
    IN  [o2 EXCEPT !.Curvature_Higgs_L2 = Curvature_Higgs_L2_of(o2),
                   !.Curvature_Higgs_L4 = Curvature_Higgs_L4_of(o2),
                   !.Curvature_Gauge_G2H2 = Curvature_Gauge_G2H2_of(o2),
                   !.Curvature_Lepton_F2H1 = Curvature_Lepton_F2H1_of(o2),
                   !.Curvature_Quark_F2H1 = Curvature_Quark_F2H1_of(o2),
                   !.SetCurvatureDone = TRUE,
                   !.CalcCouplingsdone = FALSE]

\* SetCurvatureArrays().  oob is what the read vevTree[i] gives when vevTree
\* has not been sized by set_gen (a read past the end of an empty vector).
SetCurvatureArrays(o, oob) ==
    LET o1 == initVectors(o)
        o2 == [o1 EXCEPT !.HiggsVev =
                  [i \in HiggsIdx |->
                      IF i \in DOMAIN o.vevTree THEN o.vevTree[i] ELSE oob]]
    IN  [o2 EXCEPT !.Curvature_Higgs_L2 = Curvature_Higgs_L2_of(o2),
                   !.Curvature_Higgs_L4 = Curvature_Higgs_L4_of(o2),
                   !.Curvature_Gauge_G2H2 = Curvature_Gauge_G2H2_of(o2),
                   !.Curvature_Lepton_F2H1 = Curvature_Lepton_F2H1_of(o2),
                   !.Curvature_Quark_F2H1 = Curvature_Quark_F2H1_of(o2),
                   !.SetCurvatureDone = TRUE]

\* ------------------------------------------------------------------------
\* set_gen and ReadAndSet
\* ------------------------------------------------------------------------
\* Line 276 without its guard: SetCurvatureArrays();
set_gen_PopulateAlways(o, oob) == SetCurvatureArrays(o, oob)

\* if (!SetCurvatureDone) SetCurvatureArrays();   (line 276)
set_gen_PopulateOnce(o, oob) ==
    IF ~o.SetCurvatureDone THEN SetCurvatureArrays(o, oob) ELSE o

set_gen(o, par) ==
    LET c == Cos(par[4])
        s == Sin(par[4])
        v == o.SMConstants.C_vev0
        vs == par[3]
        lambdaH == Div(Add(Mul(Mul(Mul(par[0], par[0]), c), c),
                           Mul(Mul(Mul(par[1], par[1]), s), s)),
                       Mul(Mul(R(2), par[2]), par[2]))
        kappa == Div(Mul(Mul(Sub(Mul(par[0], par[0]), Mul(par[1], par[1])), s), c),
                     Mul(par[2], par[3]))
        lambdaS == Div(Add(Mul(Mul(Mul(par[1], par[1]), c), c),
                           Mul(Mul(Mul(par[0], par[0]), s), s)),
                       Mul(Mul(R(2), par[3]), par[3]))
        gX == Div(par[5], par[3])
        muHSq == Add(Div(Mul(Mul(vs, vs), kappa), R(2)), Mul(Mul(v, v), lambdaH))
        muSSq == Add(Div(Mul(Mul(kappa, v), v), R(2)), Mul(Mul(lambdaS, vs), vs))
        vevTreeMin == [k \in 0 .. (nVEV - 1) |-> IF k = 0 THEN v ELSE vs]
        o1 == [o EXCEPT !.v = v, !.vs = vs, !.lambdaH = lambdaH, !.kappa = kappa,
                        !.lambdaS = lambdaS, !.gX = gX, !.muHSq = muHSq,
                        !.muSSq = muSSq, !.scale = v,
                        !.vevTreeMin = vevTreeMin,
                        !.vevTree = MinimizeOrderVEV(vevTreeMin)]
    IN  set_gen_PopulateOnce(o1, Zero)

\* ReadAndSet(linestr, par); tmp0 is the indeterminate initial value of the
\* local tmp.  The result is the instance and the caller's par.
ReadAndSet(o, linestr, par, tmp0) ==
    LET e0 == IF o.UseIndexCol THEN Extract(StringStream, linestr, tmp0)
              ELSE [ss |-> StringStream, tmp |-> tmp0]
        o1 == ReadFields(o, 1, e0.ss, linestr, e0.tmp)
        o2 == [o1 EXCEPT !.vs = Div(o1.MX, o1.gX)]
        par1 == [par EXCEPT ![0] = o2.MH1, ![1] = o2.MH2, ![2] = o2.v,
                            ![3] = o2.vs, ![4] = o2.alpha, ![5] = o2.MX]
    IN  [obj |-> set_gen(o2, par1), par |-> par1]

\* ------------------------------------------------------------------------
\* set_CT_Pot_Par
\* ------------------------------------------------------------------------
\* Curvature_Higgs_CT_L2[..] = -dmuHSq;   (lines 431-434 of ClassPotentialVDM.cpp)
CT_L2_dmuHSq ==
    {<<0,0>>, <<1,1>>, <<2,2>>, <<3,3>>}

\* Curvature_Higgs_CT_L2[..] = -dmuSSq;   (lines 435-436 of ClassPotentialVDM.cpp)
CT_L2_dmuSSq ==
    {<<4,4>>, <<5,5>>}

\* Curvature_Higgs_CT_L4[..] = 6 * dlambdaH;   (lines 438-495 of ClassPotentialVDM.cpp)
CT_L4_6dlambdaH ==
    {<<0,0,0,0>>, <<1,1,1,1>>, <<2,2,2,2>>, <<3,3,3,3>>}

\* Curvature_Higgs_CT_L4[..] = 2 * dlambdaH;   (lines 439-494 of ClassPotentialVDM.cpp)
CT_L4_2dlambdaH ==
    {<<0,0,1,1>>, <<0,0,2,2>>, <<0,0,3,3>>, <<0,1,0,1>>, <<0,1,1,0>>,
     <<0,2,0,2>>, <<0,2,2,0>>, <<0,3,0,3>>, <<0,3,3,0>>, <<1,0,0,1>>,
     <<1,0,1,0>>, <<1,1,0,0>>, <<1,1,2,2>>, <<1,1,3,3>>, <<1,2,1,2>>,
     <<1,2,2,1>>, <<1,3,1,3>>, <<1,3,3,1>>, <<2,0,0,2>>, <<2,0,2,0>>,
     <<2,1,1,2>>, <<2,1,2,1>>, <<2,2,0,0>>, <<2,2,1,1>>, <<2,2,3,3>>,
     <<2,3,2,3>>, <<2,3,3,2>>, <<3,0,0,3>>, <<3,0,3,0>>, <<3,1,1,3>>,
     <<3,1,3,1>>, <<3,2,2,3>>, <<3,2,3,2>>, <<3,3,0,0>>, <<3,3,1,1>>,
     <<3,3,2,2>>}

\* Curvature_Higgs_CT_L4[..] = dkappa;   (lines 442-531 of ClassPotentialVDM.cpp)
CT_L4_dkappa ==
    {<<0,0,4,4>>, <<0,0,5,5>>, <<0,4,0,4>>, <<0,4,4,0>>, <<0,5,0,5>>,
     <<0,5,5,0>>, <<1,1,4,4>>, <<1,1,5,5>>, <<1,4,1,4>>, <<1,4,4,1>>,
     <<1,5,1,5>>, <<1,5,5,1>>, <<2,2,4,4>>, <<2,2,5,5>>, <<2,4,2,4>>,
     <<2,4,4,2>>, <<2,5,2,5>>, <<2,5,5,2>>, <<3,3,4,4>>, <<3,3,5,5>>,
     <<3,4,3,4>>, <<3,4,4,3>>, <<3,5,3,5>>, <<3,5,5,3>>, <<4,0,0,4>>,
     <<4,0,4,0>>, <<4,1,1,4>>, <<4,1,4,1>>, <<4,2,2,4>>, <<4,2,4,2>>,
     <<4,3,3,4>>, <<4,3,4,3>>, <<4,4,0,0>>, <<4,4,1,1>>, <<4,4,2,2>>,
     <<4,4,3,3>>, <<5,0,0,5>>, <<5,0,5,0>>, <<5,1,1,5>>, <<5,1,5,1>>,
     <<5,2,2,5>>, <<5,2,5,2>>, <<5,3,3,5>>, <<5,3,5,3>>, <<5,5,0,0>>,
     <<5,5,1,1>>, <<5,5,2,2>>, <<5,5,3,3>>}

\* Curvature_Higgs_CT_L4[..] = 6 * dlambdaS;   (lines 514-533 of ClassPotentialVDM.cpp)
CT_L4_6dlambdaS ==
    {<<4,4,4,4>>, <<5,5,5,5>>}

\* Curvature_Higgs_CT_L4[..] = 2 * dlambdaS;   (lines 515-532 of ClassPotentialVDM.cpp)
CT_L4_2dlambdaS ==
    {<<4,4,5,5>>, <<4,5,4,5>>, <<4,5,5,4>>, <<5,4,4,5>>, <<5,4,5,4>>,
     <<5,5,4,4>>}

\* Lines 424-429 with every tadpole counterterm stored one direction early:
\* Curvature_Higgs_CT_L1[i] = dT(i+2), the last one dT1.
Curvature_Higgs_CT_L1_of_Shifted(o) ==
    [i \in HiggsIdx |->
        IF i = 0 THEN o.dT2 ELSE IF i = 1 THEN o.dT3 ELSE IF i = 2 THEN o.dT4
        ELSE IF i = 3 THEN o.dT5 ELSE IF i = 4 THEN o.dT6 ELSE o.dT1]

\* Curvature_Higgs_CT_L1 as assigned in lines 424-429
Curvature_Higgs_CT_L1_of(o) ==
    [i \in HiggsIdx |->
        IF i = 0 THEN o.dT1 ELSE IF i = 1 THEN o.dT2 ELSE IF i = 2 THEN o.dT3
        ELSE IF i = 3 THEN o.dT4 ELSE IF i = 4 THEN o.dT5 ELSE o.dT6]

\* Lines 431-436 without the minus signs.
Curvature_Higgs_CT_L2_of_PlusSign(o) ==
    [t \in CT_L2_dmuHSq \cup CT_L2_dmuSSq |->
        IF t \in CT_L2_dmuHSq THEN o.dmuHSq ELSE o.dmuSSq]

\* Curvature_Higgs_CT_L2 as assigned in lines 431-436
Curvature_Higgs_CT_L2_of(o) ==
    [t \in CT_L2_dmuHSq \cup CT_L2_dmuSSq |->
        IF t \in CT_L2_dmuHSq THEN Neg(o.dmuHSq) ELSE Neg(o.dmuSSq)]

\* Lines 438-533 with 2 * dkappa in place of dkappa.
Curvature_Higgs_CT_L4_of_DoubledPortal(o) ==
    [t \in CT_L4_6dlambdaH \cup CT_L4_2dlambdaH \cup CT_L4_dkappa
            \cup CT_L4_6dlambdaS \cup CT_L4_2dlambdaS |->
        IF t \in CT_L4_6dlambdaH THEN Mul(R(6), o.dlambdaH)
        ELSE IF t \in CT_L4_2dlambdaH THEN Mul(R(2), o.dlambdaH)
        ELSE IF t \in CT_L4_dkappa THEN Mul(R(2), o.dkappa)
        ELSE IF t \in CT_L4_6dlambdaS THEN Mul(R(6), o.dlambdaS)
        ELSE Mul(R(2), o.dlambdaS)]

\* Curvature_Higgs_CT_L4 as assigned in lines 438-533
Curvature_Higgs_CT_L4_of(o) ==
    [t \in CT_L4_6dlambdaH \cup CT_L4_2dlambdaH \cup CT_L4_dkappa
            \cup CT_L4_6dlambdaS \cup CT_L4_2dlambdaS |->
        IF t \in CT_L4_6dlambdaH THEN Mul(R(6), o.dlambdaH)
        ELSE IF t \in CT_L4_2dlambdaH THEN Mul(R(2), o.dlambdaH)
        ELSE IF t \in CT_L4_dkappa THEN o.dkappa
        ELSE IF t \in CT_L4_6dlambdaS THEN Mul(R(6), o.dlambdaS)
        ELSE Mul(R(2), o.dlambdaS)]

\* Lines 286-296 with the second assignment written to lambdaH instead of
\* dlambdaH.
set_CT_Pot_Par_Scalars_IntoLagrangian(o, par) ==
    [o EXCEPT !.dmuHSq = par[0], !.lambdaH = par[1], !.dkappa = par[2],
              !.dmuSSq = par[3], !.dlambdaS = par[4], !.dT1 = par[5],
              !.dT2 = par[6], !.dT3 = par[7], !.dT4 = par[8], !.dT5 = par[9],
              !.dT6 = par[10]]

\* The order of the block commented out at lines 299-309, which is the order
\* of addLegendCT: dmuSSq, dlambdaS, dkappa at the positions 2, 3, 4.
set_CT_Pot_Par_Scalars_LegendOrder(o, par) ==
    [o EXCEPT !.dmuHSq = par[0], !.dlambdaH = par[1], !.dmuSSq = par[2],
              !.dlambdaS = par[3], !.dkappa = par[4], !.dT1 = par[5],
              !.dT2 = par[6], !.dT3 = par[7], !.dT4 = par[8], !.dT5 = par[9],
              !.dT6 = par[10]]

\* dmuHSq = par[0]; ... dT6 = par[10];   (lines 286-296)
set_CT_Pot_Par_Scalars(o, par) ==
    [o EXCEPT !.dmuHSq = par[0], !.dlambdaH = par[1], !.dkappa = par[2],
              !.dmuSSq = par[3], !.dlambdaS = par[4], !.dT1 = par[5],
              !.dT2 = par[6], !.dT3 = par[7], !.dT4 = par[8], !.dT5 = par[9],
              !.dT6 = par[10]]

\* The element assignments as += in place of =: what is written is added to
\* what the entry held.
Overwrite_Accumulating(T, W) ==
    [t \in DOMAIN T \cup DOMAIN W |->
        IF t \in DOMAIN W THEN (IF t \in DOMAIN T THEN Add(T[t], W[t]) ELSE W[t])
        ELSE T[t]]

\* The assignments of lines 424-533 write only entries of the tensors, the
\* other entries keep what they held.
Overwrite(T, W) == [t \in DOMAIN T \cup DOMAIN W |-> IF t \in DOMAIN W THEN W[t] ELSE T[t]]

\* set_CT_Pot_Par behind the gate CalcCouplingsdone: without it nothing is
\* written.
set_CT_Pot_Par_Gated(o, par) ==
    IF ~o.CalcCouplingsdone THEN o
    ELSE LET o1 == set_CT_Pot_Par_Scalars(o, par)
         IN  [o1 EXCEPT !.Curvature_Higgs_CT_L1 = Curvature_Higgs_CT_L1_of(o1),
                        !.Curvature_Higgs_CT_L2 = Overwrite(@, Curvature_Higgs_CT_L2_of(o1)),
                        !.Curvature_Higgs_CT_L4 = Overwrite(@, Curvature_Higgs_CT_L4_of(o1))]

\* set_CT_Pot_Par(par) on an instance whose tensors initVectors has allocated.
set_CT_Pot_Par(o, par) ==
    LET o1 == set_CT_Pot_Par_Scalars(o, par)
    IN  [o1 EXCEPT !.Curvature_Higgs_CT_L1 = Curvature_Higgs_CT_L1_of(o1),
                   !.Curvature_Higgs_CT_L2 = Overwrite(@, Curvature_Higgs_CT_L2_of(o1)),
                   !.Curvature_Higgs_CT_L4 = Overwrite(@, Curvature_Higgs_CT_L4_of(o1))]

\* ------------------------------------------------------------------------
\* addLegendCT and calc_CT
\* ------------------------------------------------------------------------
\* addLegendCT() const: the labels in the order they are pushed (lines 80-90).
addLegendCT ==
    [k \in 0 .. (nParCT - 1) |->
        CASE k = 0 -> "dmuHSq"
          [] k = 1 -> "dlambdaH"
          [] k = 2 -> "dmuSSq"
          [] k = 3 -> "dlambdaS"
          [] k = 4 -> "dkappa"
          [] k = 5 -> "dT1"
          [] k = 6 -> "dT2"
          [] k = 7 -> "dT3"
          [] k = 8 -> "dT4"
          [] k = 9 -> "dT5"
          [] k = 10 -> "dT6"]

\* Particle names that run into each other when concatenated.
particles_Ambiguous ==
    [i \in HiggsIdx |->
        CASE i = 0 -> "G" [] i = 1 -> "GG" [] i = 2 -> "GGG"
          [] i = 3 -> "H1" [] i = 4 -> "H2" [] i = 5 -> "H3"]

\* particles[0] = "G+"; ... particles[5] = "H3";   (lines 123-128)
particles ==
    [i \in HiggsIdx |->
        CASE i = 0 -> "G+" [] i = 1 -> "G-" [] i = 2 -> "G0"
          [] i = 3 -> "H1" [] i = 4 -> "H2" [] i = 5 -> "H3"]

\* A for loop from lo to hi whose iteration n pushes the labels body[n].
RECURSIVE PushBackLoop(_, _, _)
PushBackLoop(body, lo, hi) ==
    IF lo > hi THEN <<>> ELSE body[lo] \o PushBackLoop(body, lo + 1, hi)

\* addLegendTripleCouplings() const: the loops of lines 131-145; j starts at
\* i, k starts at j, and every iteration pushes the Tree_, CT_ and CW_ label.
addLegendTripleCouplings ==
    PushBackLoop([i \in HiggsIdx |->
        PushBackLoop([j \in i .. (NHiggs - 1) |->
            PushBackLoop([k \in j .. (NHiggs - 1) |->
                << "Tree_" \o particles[i] \o particles[j] \o particles[k],
                   "CT_" \o particles[i] \o particles[j] \o particles[k],
                   "CW_" \o particles[i] \o particles[j] \o particles[k] >>],
                j, NHiggs - 1)],
            i, NHiggs - 1)],
        0, NHiggs - 1)

\* HesseWeinberg(i, j) = WeinbergHesse.at(j * NHiggs + i)   (line 617)
HesseWeinberg(WeinbergHesse, i, j) == At(WeinbergHesse, j * NHiggs + i)

\* pow(x, -2)
PowM2(x) == Div(R(1), Mul(x, x))

\* The counterterm formulae of lines 622-636.
calc_CT_parCT(o, WeinbergNabla, WeinbergHesse) ==
    LET H(i, j) == HesseWeinberg(WeinbergHesse, i, j)
        N(i) == At(WeinbergNabla, i)
        v == o.v
        vs == o.vs
    IN  [k \in 0 .. (nParCT - 1) |->
          CASE k = 0 -> Div(Div(Add(Sub(Mul(Neg(H(2, 2)), v), Mul(H(2, 4), vs)),
                                    Mul(Mul(R(3), H(3, 3)), v)), v), R(2))
            [] k = 1 -> Div(Mul(Add(Neg(H(2, 2)), H(3, 3)), PowM2(v)), R(2))
            [] k = 2 -> Div(Div(Neg(H(2, 4)), v), vs)
            [] k = 3 -> Div(Div(Sub(Mul(Neg(H(2, 4)), v),
                                    Mul(vs, Sub(H(4, 4), Mul(R(3), H(5, 5))))),
                                vs), R(2))
            [] k = 4 -> Div(Mul(Add(Neg(H(4, 4)), H(5, 5)), PowM2(vs)), R(2))
            [] k = 5 -> Neg(N(0))
            [] k = 6 -> Neg(N(1))
            [] k = 7 -> Sub(Mul(H(3, 3), v), N(2))
            [] k = 8 -> Neg(N(3))
            [] k = 9 -> Sub(Mul(H(5, 5), vs), N(4))
            [] k = 10 -> Neg(N(5))]

\* The counterterms by name: the formulae as the comments of lines 654-664
\* name them (//dmuHSq ... //dT6).
calc_CT_Named(o, WeinbergNabla, WeinbergHesse) ==
    LET H(i, j) == HesseWeinberg(WeinbergHesse, i, j)
        N(i) == At(WeinbergNabla, i)
        v == o.v
        vs == o.vs
        half == Q(1, 2)
    IN  [dmuHSq |-> Add(Sub(Mul(Neg(half), H(2, 2)),
                            Mul(Mul(half, H(2, 4)), Div(vs, v))),
                        Mul(Q(3, 2), H(3, 3))),
         dlambdaH |-> Add(Div(Mul(Neg(half), H(2, 2)), Mul(v, v)),
                          Div(Mul(half, H(3, 3)), Mul(v, v))),
         dmuSSq |-> Add(Sub(Mul(Mul(Neg(half), H(2, 4)), Div(v, vs)),
                            Mul(half, H(4, 4))),
                        Mul(Q(3, 2), H(5, 5))),
         dlambdaS |-> Add(Div(Mul(Neg(half), H(4, 4)), Mul(vs, vs)),
                          Div(Mul(half, H(5, 5)), Mul(vs, vs))),
         dkappa |-> Div(Neg(H(2, 4)), Mul(v, vs)),
         dT1 |-> Neg(N(0)),
         dT2 |-> Neg(N(1)),
         dT3 |-> Sub(Mul(H(3, 3), v), N(2)),
         dT4 |-> Neg(N(3)),
         dT5 |-> Sub(Mul(H(5, 5), vs), N(4)),
         dT6 |-> Neg(N(5))]

\* The first gate alone (lines 594-599), the check of lines 600-605 missing.
calc_CT_Throws_CurvatureOnly(o) == ~o.SetCurvatureDone

\* The two gates of lines 594-605: which exception, if any, calc_CT throws.
calc_CT_Throws(o) == ~o.SetCurvatureDone \/ ~o.CalcCouplingsdone

\* calc_CT without its const qualifier, storing the scalars it computed in
\* the instance before it returns them.
calc_CT_StoresResult(o, WeinbergNabla, WeinbergHesse) ==
    IF calc_CT_Throws(o)
    THEN [outcome |-> "throw", ret |-> EmptyVec, obj |-> o]
    ELSE LET parCT == calc_CT_parCT(o, WeinbergNabla, WeinbergHesse)
         IN  [outcome |-> "ok", ret |-> parCT,
              obj |-> set_CT_Pot_Par_Scalars(o, parCT)]

\* calc_CT() const: the exception or the returned vector, and the instance
\* after the call, which a const member function leaves as it was: parCT
\* and the Weinberg vectors and matrices are locals (lines 588-667).
calc_CT(o, WeinbergNabla, WeinbergHesse) ==
    IF calc_CT_Throws(o)
    THEN [outcome |-> "throw", ret |-> EmptyVec, obj |-> o]
    ELSE [outcome |-> "ok", ret |-> calc_CT_parCT(o, WeinbergNabla, WeinbergHesse),
          obj |-> o]

\* ------------------------------------------------------------------------
\* CalculatePhysicalCouplings (base class) and TripleHiggsCouplings
\* ------------------------------------------------------------------------
\* The mass-matrix diagonaliser: it stores the rotation matrix and the
\* field-basis triple couplings it derived and sets the gate.
CalculatePhysicalCouplings(o, cpc) ==
    [o EXCEPT !.HiggsRotationMatrix = cpc.HiggsRotationMatrix,
              !.LambdaHiggs_3 = cpc.LambdaHiggs_3,
              !.LambdaHiggs_3_CT = cpc.LambdaHiggs_3_CT,
              !.CalcCouplingsdone = TRUE]

Idx3 == HiggsIdx \X HiggsIdx \X HiggsIdx

\* HiggsOrder[i] = i   (lines 680-683)
HiggsOrder == [i \in HiggsIdx |-> i]

\* HiggsRotSort.row(i) = HiggsRot.row(HiggsOrder[i])   (lines 703-717)
HiggsRotSort(o) ==
    [t \in HiggsIdx \X HiggsIdx |-> At(o.HiggsRotationMatrix, <<HiggsOrder[t[1]], t[2]>>)]

\* GaugeBasis read with the first index the slowest:
\* TripleDeriv.at(k + j*NHiggs + i*NHiggs*NHiggs)
GaugeBasis_FirstIndexSlowest(TripleDeriv) ==
    [t \in Idx3 |-> At(TripleDeriv, t[3] + t[2] * NHiggs + t[1] * NHiggs * NHiggs)]

\* GaugeBasis[i][j][k] = TripleDeriv.at(i + j*NHiggs + k*NHiggs*NHiggs)
GaugeBasis(TripleDeriv) ==
    [t \in Idx3 |-> At(TripleDeriv, t[1] + t[2] * NHiggs + t[3] * NHiggs * NHiggs)]

AllFinite(T) == \A t \in DOMAIN T : IsFinite(T[t])

\* RotFac without its third factor.
RotFac_TwoFactors(Rs, i, j, k, t) == Mul(Rs[<<i, t[1]>>], Rs[<<j, t[2]>>])

\* double RotFac = HiggsRotSort(i,l) * HiggsRotSort(j,m) * HiggsRotSort(k,n)
RotFac(Rs, i, j, k, t) == Mul(Mul(Rs[<<i, t[1]>>], Rs[<<j, t[2]>>]), Rs[<<k, t[3]>>])

\* The sum += RotFac * T[l][m][n] over the index triples of S.
RECURSIVE SumTerms(_, _, _, _, _, _)
SumTerms(S, Rs, T, i, j, k) ==
    IF S = {} THEN Zero
    ELSE LET t == CHOOSE y \in S : TRUE
         IN  Add(Mul(RotFac(Rs, i, j, k, t), T[t]),
                 SumTerms(S \ {t}, Rs, T, i, j, k))

\* The contraction of lines 735-763 for one level: the sum over l, m, n of
\* RotFac * T[l][m][n].  When every entry is finite a term whose rotation
\* factor or tensor entry is an exact zero adds nothing, and the sum runs over
\* the other terms.
ContractOver(c) ==
    [ijk \in Idx3 |->
        SumTerms({t \in c.NonZero : /\ t[1] \in c.Supp[ijk[1]]
                                    /\ t[2] \in c.Supp[ijk[2]]
                                    /\ t[3] \in c.Supp[ijk[3]]},
                 c.Rs, c.T, ijk[1], ijk[2], ijk[3])]

\* Stored(f) is f with every entry evaluated, as a vector holds it.
Stored(f) == f @@ <<>>

ContractTerms(Rs, T) ==
    IF AllFinite(Rs) /\ AllFinite(T)
    THEN [Rs |-> Stored(Rs), T |-> Stored(T),
          Supp |-> Stored([i \in HiggsIdx |-> {l : l \in {m \in HiggsIdx : Rs[<<i, m>>] # Zero}}]),
          NonZero |-> {t : t \in {u \in Idx3 : T[u] # Zero}}]
    ELSE [Rs |-> Stored(Rs), T |-> Stored(T),
          Supp |-> Stored([i \in HiggsIdx |-> HiggsIdx]), NonZero |-> Idx3]

Contract(Rs, T) ==
    CHOOSE r \in {ContractOver(c) : c \in {ContractTerms(Rs, T)}} : TRUE

Full3(T) == [t \in Idx3 |-> At(T, t)]

\* The body of TripleHiggsCouplings once both gates hold (lines 674-763).
TripleHiggsCouplings_Rotate(o, TripleDeriv) ==
    LET Rs == HiggsRotSort(o)
    IN  [o EXCEPT !.TripleHiggsCorrectionsCWPhysical = Contract(Rs, GaugeBasis(TripleDeriv)),
                  !.TripleHiggsCorrectionsTreePhysical = Contract(Rs, Full3(o.LambdaHiggs_3)),
                  !.TripleHiggsCorrectionsCTPhysical = Contract(Rs, Full3(o.LambdaHiggs_3_CT))]

\* if (!SetCurvatureDone) SetCurvatureArrays();
\* if (!CalcCouplingsdone) CalculatePhysicalCouplings();   (lines 671-672)
TripleHiggsCouplings_Prepare(o, cpc, oob) ==
    LET o1 == IF ~o.SetCurvatureDone THEN SetCurvatureArrays(o, oob) ELSE o
    IN  IF ~o1.CalcCouplingsdone THEN CalculatePhysicalCouplings(o1, cpc) ELSE o1

TripleHiggsCouplings(o, TripleDeriv, cpc, oob) ==
    TripleHiggsCouplings_Rotate(TripleHiggsCouplings_Prepare(o, cpc, oob), TripleDeriv)

\* ------------------------------------------------------------------------
\* Derivatives of a potential given by its curvature tensors
\* ------------------------------------------------------------------------
\* The sum of the values f[t] over t in S.
RECURSIVE SumOver(_, _)
SumOver(S, f) ==
    IF S = {} THEN Zero
    ELSE LET t == CHOOSE y \in S : TRUE
         IN  Add(f[t], SumOver(S \ {t}, f))

\* The first derivative in the direction i, at the field values phi, of the
\* potential with the tensors L1, L2, L4:
\*   L1[i] + sum_j L2[i][j] phi_j + (1/6) sum_jkl L4[i][j][k][l] phi_j phi_k phi_l
FirstDerivative(L1, L2, L4, phi, i) ==
    Add(Add(L1[i], SumOver(HiggsIdx, [j \in HiggsIdx |-> Mul(At(L2, <<i, j>>), phi[j])])),
        Mul(Q(1, 6),
            SumOver(HiggsIdx, [j \in HiggsIdx |-> SumOver(HiggsIdx, [k \in HiggsIdx |-> SumOver(HiggsIdx, [l \in HiggsIdx |->
                    Mul(Mul(Mul(At(L4, <<i, j, k, l>>), phi[j]), phi[k]), phi[l])])])])))

\* Its second derivative in the directions i, j:
\*   L2[i][j] + (1/2) sum_kl L4[i][j][k][l] phi_k phi_l
SecondDerivative(L2, L4, phi, i, j) ==
    Add(At(L2, <<i, j>>),
        Mul(Q(1, 2),
            SumOver(HiggsIdx, [k \in HiggsIdx |-> SumOver(HiggsIdx, [l \in HiggsIdx |->
                    Mul(Mul(At(L4, <<i, j, k, l>>), phi[k]), phi[l])])])))

\* ------------------------------------------------------------------------
\* Inputs
\* ------------------------------------------------------------------------
\* A sparse vector or tensor from a set of <<index, value>> pairs.
Sparse(pairs) == [t \in {p[1] : p \in pairs} |-> (CHOOSE p \in pairs : p[1] = t)[2]]

\* The ISMConstants handed to the constructor: the electroweak VEV, the
\* gauge couplings, the fermion masses and the CKM matrix.
SMConstantsChoices ==
    { [C_vev0 |-> R(2), C_g |-> Q(1, 2), C_gs |-> Q(1, 3),
       C_MassElectron |-> R(1), C_MassMu |-> R(2), C_MassTau |-> R(3),
       C_MassUp |-> R(1), C_MassDown |-> R(2), C_MassCharm |-> R(3),
       C_MassStrange |-> R(4), C_MassTop |-> R(5), C_MassBottom |-> R(6),
       C_Vud |-> <<R(1), Zero>>, C_Vus |-> <<Zero, R(1)>>, C_Vub |-> <<R(1), R(1)>>,
       C_Vcd |-> <<R(2), R(-1)>>, C_Vcs |-> <<R(1), R(2)>>, C_Vcb |-> <<R(-1), R(1)>>,
       C_Vtd |-> <<R(2), R(1)>>, C_Vts |-> <<R(-1), R(-2)>>, C_Vtb |-> <<R(2), R(2)>>] }

\* What an uninitialised double, or a read past the end of a vector, may hold.
Indeterminate == {Zero, R(7)}

\* Records: complete ones (the second with a leading index column), one whose
\* last field is zero, a short one, one with a word in it, an empty one.
RecA == <<Num(R(1)), Num(R(2)), Num(R(6)), Num(Angle35), Num(R(2)), Num(R(3))>>
RecB == <<Num(R(9)), Num(R(3)), Num(R(1)), Num(R(2)), Num(Zero), Num(R(3)), Num(R(2))>>
RecZeroCoupling == <<Num(R(1)), Num(R(2)), Num(R(6)), Num(Angle35), Num(R(2)), Num(Zero)>>
RecShort == <<Num(R(1)), Num(R(2)), Num(R(6))>>
RecWord == <<Num(R(1)), Num(R(2)), Num(R(6)), Word, Num(R(2)), Num(R(3))>>
RecEmpty == <<>>
Records == {RecA, RecB, RecZeroCoupling, RecShort, RecWord, RecEmpty}

\* Parameter vectors handed to set_gen directly: a regular point, one with
\* par[2] = 0 and one with par[3] = 0.
ParVec(a, b, c, d, e, f) ==
    [k \in 0 .. (nPar - 1) |->
        IF k = 0 THEN a ELSE IF k = 1 THEN b ELSE IF k = 2 THEN c
        ELSE IF k = 3 THEN d ELSE IF k = 4 THEN e ELSE f]
ParRegular == ParVec(R(2), R(1), R(2), R(1), Zero, R(3))
ParZeroVev == ParVec(R(1), R(2), Zero, R(2), Zero, R(6))
ParZeroHiddenVev == ParVec(R(1), R(2), R(2), Zero, Zero, R(6))
ParPoints == {ParRegular, ParZeroVev, ParZeroHiddenVev}

\* One-loop gradient and flat Hessian (entry (i,j) at offset j*NHiggs + i).
WeinbergInputs ==
    { [ Nabla |-> Sparse({<<0, R(1)>>, <<2, R(3)>>, <<4, R(-2)>>, <<5, R(1)>>}),
        Hesse |-> Sparse({<<14, R(4)>>, <<26, R(2)>>, <<16, R(2)>>, <<21, R(1)>>,
                          <<28, R(6)>>, <<35, R(2)>>}) ] }

\* The renormalisation inputs: parameter points with different singlet VEVs,
\* two gradients, and flat Hessians (entry (i,j) at offset j*NHiggs + i)
\* built from their entries (2,2), (2,4), (4,2), (3,3), (4,4), (5,5) and
\* (0,1) = (1,0).
ParPointsCT == {ParRegular, ParVec(R(1), R(2), R(2), R(-3), Angle35, R(6))}
FlatHesse(h22, h24, h42, h33, h44, h55, h01) ==
    Sparse({<<2 * NHiggs + 2, h22>>, <<4 * NHiggs + 2, h24>>, <<2 * NHiggs + 4, h42>>,
            <<3 * NHiggs + 3, h33>>, <<4 * NHiggs + 4, h44>>, <<5 * NHiggs + 5, h55>>,
            <<1 * NHiggs + 0, h01>>, <<0 * NHiggs + 1, h01>>})
HessesCT ==
    { FlatHesse(R(4), h24, h24, R(1), R(6), h55, R(5)) :
        h24 \in {Zero, R(2)}, h55 \in {R(2), Q(1, 2)} }
    \cup { FlatHesse(R(4), R(2), R(3), R(1), R(6), R(2), R(5)) }
NablasCT ==
    { Sparse({<<0, R(1)>>, <<1, R(-1)>>, <<2, R(3)>>, <<3, Q(1, 2)>>, <<4, R(-2)>>,
              <<5, R(1)>>}),
      Sparse({<<2, R(5)>>}) }
WeinbergInputsCT == { [Nabla |-> n, Hesse |-> h] : n \in NablasCT, h \in HessesCT }

\* Counterterm vectors handed to set_CT_Pot_Par by a caller.
CTPoints == { [k \in 0 .. (nParCT - 1) |-> R(k + 1)] }

\* Results of the mass-matrix diagonaliser: an orthogonal matrix mixing the
\* directions 2 and 4, and the field-basis triple couplings.
RotMix ==
    Sparse({<<<<0, 0>>, R(1)>>, <<<<1, 1>>, R(1)>>, <<<<3, 3>>, R(1)>>, <<<<5, 5>>, R(1)>>,
            <<<<2, 2>>, Q(4, 5)>>, <<<<2, 4>>, Q(3, 5)>>,
            <<<<4, 2>>, Q(-3, 5)>>, <<<<4, 4>>, Q(4, 5)>>})
CPCResults ==
    { [ HiggsRotationMatrix |-> RotMix,
        LambdaHiggs_3 |-> Sparse({<<<<2, 2, 2>>, R(6)>>, <<<<2, 4, 4>>, R(1)>>,
                                  <<<<4, 2, 4>>, R(1)>>, <<<<4, 4, 2>>, R(1)>>}),
        LambdaHiggs_3_CT |-> Sparse({<<<<4, 4, 4>>, R(3)>>}) ] }

\* One-loop third derivatives, flat (entry (l,m,n) at l + m*NHiggs + n*NHiggs^2).
TripleDerivs == { Sparse({<<86, R(5)>>, <<172, R(-1)>>}) }

\* Results of the diagonaliser for the basis rotation: orthogonal matrices
\* (a mixing of the directions 2 and 4; a mixing of 0 and 1 with the
\* directions 3 and 5 exchanged; a rotation of the directions 2, 3, 4), with
\* symmetric and non-symmetric field-basis couplings.
CPCResultsRotate ==
    LET Rots == { RotMix,
                  Sparse({<<<<0, 0>>, Q(5, 13)>>, <<<<0, 1>>, Q(12, 13)>>,
                          <<<<1, 0>>, Q(-12, 13)>>, <<<<1, 1>>, Q(5, 13)>>,
                          <<<<2, 2>>, R(1)>>, <<<<3, 5>>, R(1)>>,
                          <<<<4, 4>>, R(1)>>, <<<<5, 3>>, R(1)>>}),
                  Sparse({<<<<0, 0>>, R(1)>>, <<<<1, 1>>, R(1)>>, <<<<5, 5>>, R(1)>>,
                          <<<<2, 2>>, Q(1, 3)>>, <<<<2, 3>>, Q(2, 3)>>, <<<<2, 4>>, Q(2, 3)>>,
                          <<<<3, 2>>, Q(2, 3)>>, <<<<3, 3>>, Q(1, 3)>>, <<<<3, 4>>, Q(-2, 3)>>,
                          <<<<4, 2>>, Q(2, 3)>>, <<<<4, 3>>, Q(-2, 3)>>, <<<<4, 4>>, Q(1, 3)>>}) }
    IN  { [ HiggsRotationMatrix |-> rot,
            LambdaHiggs_3 |-> Sparse({<<<<2, 2, 2>>, R(6)>>, <<<<2, 4, 4>>, R(1)>>,
                                      <<<<4, 2, 4>>, R(1)>>, <<<<4, 4, 2>>, R(1)>>,
                                      <<<<0, 1, 3>>, R(2)>>}),
            LambdaHiggs_3_CT |-> Sparse({<<<<4, 4, 4>>, R(3)>>, <<<<2, 3, 5>>, R(-1)>>}) ] :
          rot \in Rots }

\* One-loop third derivatives for the basis rotation: offsets of index
\* triples that change when their order is reversed.
TripleDerivsRotate ==
    { Sparse({<<86, R(5)>>, <<172, R(-1)>>}),
      Sparse({<<2 + 4 * NHiggs + 4 * NHiggs * NHiggs, R(2)>>,
              <<2 + 3 * NHiggs + 4 * NHiggs * NHiggs, R(3)>>,
              <<0 + 1 * NHiggs + 5 * NHiggs * NHiggs, R(-1)>>}) }

\* ------------------------------------------------------------------------
\* PlotEWBG_mu (src/src/prog/PlotEWBG_mu.cpp): the command line
\* ------------------------------------------------------------------------
\* A std::string is a string; args is the sequence of the words after the
\* program name, so that args[k] is argv[k] and args.at(k) is args[k + 1],
\* and argc is Len(args) + 1.

\* std::transform(el.begin(), el.end(), el.begin(), ::tolower)   (line 105)
ToLower(s) ==
    LET LowerCase ==
            [A |-> "a", B |-> "b", C |-> "c", D |-> "d", E |-> "e",
             F |-> "f", G |-> "g", H |-> "h", I |-> "i", J |-> "j",
             K |-> "k", L |-> "l", M |-> "m", N |-> "n", O |-> "o",
             P |-> "p", Q |-> "q", R |-> "r", S |-> "s", T |-> "t",
             U |-> "u", V |-> "v", W |-> "w", X |-> "x", Y |-> "y",
             Z |-> "z"]
        tolower(c) == IF c \in DOMAIN LowerCase THEN LowerCase[c] ELSE c
        RECURSIVE transform(_)
        transform(i) == IF i > Len(s) THEN ""
                        ELSE tolower(SubSeq(s, i, i)) \o transform(i + 1)
    IN  transform(1)

\* StringStartsWith(str, prefix) of BSMPT/utility.h
StringStartsWith(str, prefix) ==
    Len(str) >= Len(prefix) /\ SubSeq(str, 1, Len(prefix)) = prefix

\* std::string::substr(pos), for pos <= size(): the characters from the
\* 0-based position pos to the end.
substr(s, pos) == SubSeq(s, pos + 1, Len(s))

\* std::stoi: an optional sign and the longest run of decimal digits, what
\* follows being ignored; std::invalid_argument when there is no digit.
stoi(s) ==
    LET Digits == "0123456789"
        IsDigit(c) == \E i \in 1 .. 10 : SubSeq(Digits, i, i) = c
        Digit(c) == (CHOOSE i \in 1 .. 10 : SubSeq(Digits, i, i) = c) - 1
        signed == s # "" /\ Head(s) \in {"-", "+"}
        body == IF signed THEN Tail(s) ELSE s
        RECURSIVE Value(_, _)
        Value(t, acc) == IF t = "" \/ ~IsDigit(Head(t)) THEN acc
                         ELSE Value(Tail(t), 10 * acc + Digit(Head(t)))
    IN  IF body = "" \/ ~IsDigit(Head(body))
        THEN [outcome |-> "throw", ret |-> 0]
        ELSE [outcome |-> "ok",
              ret |-> IF signed /\ Head(s) = "-" THEN 0 - Value(body, 0)
                      ELSE Value(body, 0)]

\* ModelID::getModel: the identifier of a model name, NotSet for any other
\* string.
getModel(s) == IF s \in {"vdm", "c2hdm"} THEN s ELSE "NotSet"

\* struct ReturnType, value-initialised (lines 48-54)
ReturnType ==
    [Model |-> "NotSet", Line |-> 0, NumberOfSteps |-> 0, InputFile |-> "",
     OutputFile |-> "", ConfigFile |-> "", TerminalOutput |-> FALSE, vw |-> "0.1"]

\* Lines 97-151: the arguments read into res, by prefix (the loop of lines
\* 102-138 with its chain of tests on the lower-case copy el) or by position.
\* A std::stoi that throws ends the function.  The number of --vw= is kept as
\* its text.
getCLIArguments_Parse(argc, args) ==
    LET UsePrefix == StringStartsWith(args[1], "--")
        Read(res, arg) ==
            LET el == ToLower(arg)
            IN  IF StringStartsWith(el, "--model=")
                THEN [res EXCEPT !.Model = getModel(substr(el, Len("--model=")))]
                ELSE IF StringStartsWith(el, "--input=")
                THEN [res EXCEPT !.InputFile = substr(arg, Len("--input="))]
                ELSE IF StringStartsWith(el, "--output=")
                THEN [res EXCEPT !.OutputFile = substr(arg, Len("--output="))]
                ELSE IF StringStartsWith(el, "--line=")
                THEN [res EXCEPT !.Line = stoi(substr(el, Len("--line="))).ret]
                ELSE IF StringStartsWith(el, "--numberofsteps=")
                THEN [res EXCEPT !.NumberOfSteps =
                                    stoi(substr(el, Len("--numberofsteps="))).ret]
                ELSE IF StringStartsWith(el, "--terminaloutput=")
                THEN [res EXCEPT !.TerminalOutput = (substr(el, Len("--lastline=")) = "y")]
                ELSE IF StringStartsWith(el, "--vw=")
                THEN [res EXCEPT !.vw = substr(el, Len("--vw="))]
                ELSE IF StringStartsWith(el, "--config=")
                THEN [res EXCEPT !.ConfigFile = substr(arg, Len("--config"))]
                ELSE res
        Throws(arg) ==
            LET el == ToLower(arg)
            IN  \/ /\ StringStartsWith(el, "--line=")
                   /\ stoi(substr(el, Len("--line="))).outcome = "throw"
                \/ /\ StringStartsWith(el, "--numberofsteps=")
                   /\ stoi(substr(el, Len("--numberofsteps="))).outcome = "throw"
        RECURSIVE Loop(_, _)
        Loop(res, i) == IF i > Len(args) THEN res ELSE Loop(Read(res, args[i]), i + 1)
        s7 == args[6]
    IN  IF UsePrefix
        THEN IF \E i \in 1 .. Len(args) : Throws(args[i])
             THEN [outcome |-> "throw", ret |-> ReturnType]
             ELSE [outcome |-> "ok", ret |-> Loop(ReturnType, 1)]
        ELSE IF stoi(args[4]).outcome = "throw" \/ stoi(args[5]).outcome = "throw"
             THEN [outcome |-> "throw", ret |-> ReturnType]
             ELSE [outcome |-> "ok",
                   ret |-> [ReturnType EXCEPT
                              !.Model = getModel(args[1]),
                              !.InputFile = args[2],
                              !.OutputFile = args[3],
                              !.Line = stoi(args[4]).ret,
                              !.NumberOfSteps = stoi(args[5]).ret,
                              !.ConfigFile = args[6],
                              !.TerminalOutput = IF argc = 8 THEN "y" = s7
                                                 ELSE ReturnType.TerminalOutput]]

\* getCLIArguments without the test of lines 153-156.
getCLIArguments_StepsUnchecked(argc, args) ==
    IF Len(args) > 0 /\ args[1] = "--help"
    THEN [outcome |-> "throw int", ret |-> ReturnType]
    ELSE IF argc < 7
    THEN [outcome |-> "throw", ret |-> ReturnType]
    ELSE getCLIArguments_Parse(argc, args)

\* getCLIArguments(argc, argv): throw int{0} for --help (line 89), a
\* std::runtime_error for fewer than six arguments (line 93) or zero steps
\* (line 155), an exception of std::stoi, or the parsed arguments.
getCLIArguments(argc, args) ==
    IF Len(args) > 0 /\ args[1] = "--help"
    THEN [outcome |-> "throw int", ret |-> ReturnType]
    ELSE IF argc < 7
    THEN [outcome |-> "throw", ret |-> ReturnType]
    ELSE LET r == getCLIArguments_Parse(argc, args)
         IN  IF r.outcome = "ok" /\ r.ret.NumberOfSteps = 0
             THEN [outcome |-> "throw", ret |-> ReturnType]
             ELSE r

\* double mu_factor = 1/2. + (step/static_cast<double>(args.NumberOfSteps));
\* (line 236)
mu_factor(step, NumberOfSteps) == Add(Q(1, 2), Div(R(step), R(NumberOfSteps)))

\* The loop reading on past the line asked for: line 202 without its break.
LoopBreaks_Never(linecounter, Line) == FALSE

\* if(linecounter > args.Line) break;   (line 202)
LoopBreaks(linecounter, Line) == linecounter > Line

\* ------------------------------------------------------------------------
\* State
\* ------------------------------------------------------------------------
\* vdm  : the Class_VDM instance
\* last : the last call made on it: its name, its argument (for calc_CT and
\*        TripleHiggsCouplings the one-loop derivatives the call obtained
\*        from the Weinberg*Derivative functions), whether it returned
\*        ("ok"), threw ("throw") or crashed the process ("crash"), and
\*        what it returned
\* main : the run of PlotEWBG_mu: the command line and the files it is given,
\*        where main() stands (pc), the parsed arguments, the exit status,
\*        what it has constructed, opened and written, and the counters of
\*        its read loop and its scale scan
VARIABLES vdm, last, main

vars == <<vdm, last, main>>

NoCall == [op |-> "none", arg |-> <<>>, outcome |-> "ok", ret |-> <<>>]

\* main() entered with the arguments args, the input file file (so many
\* lines, the last one ending with the file or with a newline) and the file
\* system fs (whether the input can be opened and the output created).
MainStart(args, file, fs) ==
    [pc |-> "start", args |-> args, file |-> file, fs |-> fs,
     res |-> ReturnType, exit |-> "none", help |-> FALSE,
     EtaInterface |-> "none", infile |-> "none", outfile |-> "none",
     modelPointer |-> "none", linecounter |-> 0, linesRead |-> 0, eof |-> FALSE,
     headers |-> 0, initModel |-> <<>>, step |-> 0, factors |-> <<>>, rows |-> 0]

Init ==
    /\ \E smc \in SMConstantsChoices, g \in Indeterminate : vdm = Class_VDM(smc, g)
    /\ last = NoCall
    /\ main = MainStart(<<>>, [lines |-> 0, eofAtLast |-> FALSE],
                        [infileGood |-> FALSE, outfileGood |-> FALSE])

Alive == last.outcome # "crash"

Returned(op, arg, ret) == [op |-> op, arg |-> arg, outcome |-> "ok", ret |-> ret]
Crashed(op, arg) == [op |-> op, arg |-> arg, outcome |-> "crash", ret |-> <<>>]

\* modelPointer->setUseIndexCol(linestr)
Do_setUseIndexCol(b) ==
    /\ Alive
    /\ UNCHANGED main
    /\ vdm' = [vdm EXCEPT !.UseIndexCol = b]
    /\ last' = Returned("setUseIndexCol", b, <<>>)

Do_ReadAndSet(linestr, par, tmp0) ==
    /\ Alive
    /\ UNCHANGED main
    /\ LET r == ReadAndSet(vdm, linestr, par, tmp0)
       IN  /\ vdm' = r.obj
           /\ last' = Returned("ReadAndSet", linestr, r.par)

Do_set_gen(par) ==
    /\ Alive
    /\ UNCHANGED main
    /\ vdm' = set_gen(vdm, par)
    /\ last' = Returned("set_gen", par, <<>>)

\* A direct call.  Before set_gen has sized vevTree the reads vevTree[i] run
\* past the end of an empty vector: the process crashes or reads some value.
Do_SetCurvatureArrays ==
    /\ Alive
    /\ UNCHANGED main
    /\ \/ /\ Size(vdm.vevTree) = NHiggs
          /\ vdm' = SetCurvatureArrays(vdm, Zero)
          /\ last' = Returned("SetCurvatureArrays", <<>>, <<>>)
       \/ /\ Size(vdm.vevTree) # NHiggs
          /\ \E oob \in Indeterminate :
                /\ vdm' = SetCurvatureArrays(vdm, oob)
                /\ last' = Returned("SetCurvatureArrays", <<>>, <<>>)
       \/ /\ Size(vdm.vevTree) # NHiggs
          /\ vdm' = vdm
          /\ last' = Crashed("SetCurvatureArrays", <<>>)

\* The diagonaliser works on populated tensors.
Do_CalculatePhysicalCouplings(cpc) ==
    /\ Alive
    /\ UNCHANGED main
    /\ vdm.SetCurvatureDone
    /\ vdm' = CalculatePhysicalCouplings(vdm, cpc)
    /\ last' = Returned("CalculatePhysicalCouplings", <<>>, <<>>)

Do_calc_CT(w) ==
    /\ Alive
    /\ UNCHANGED main
    /\ LET r == calc_CT(vdm, w.Nabla, w.Hesse)
       IN  /\ vdm' = r.obj
           /\ last' = [op |-> "calc_CT", arg |-> w, outcome |-> r.outcome,
                       ret |-> r.ret]

\* Before initVectors has allocated the tensors the element writes run past
\* the end of empty vectors: the process crashes, or the writes miss the
\* instance and only the scalar members are set.
Do_set_CT_Pot_Par(par) ==
    /\ Alive
    /\ UNCHANGED main
    /\ \/ /\ Size(vdm.Curvature_Higgs_CT_L1) = NHiggs
          /\ vdm' = set_CT_Pot_Par(vdm, par)
          /\ last' = Returned("set_CT_Pot_Par", par, <<>>)
       \/ /\ Size(vdm.Curvature_Higgs_CT_L1) # NHiggs
          /\ vdm' = set_CT_Pot_Par_Scalars(vdm, par)
          /\ last' = Returned("set_CT_Pot_Par", par, <<>>)
       \/ /\ Size(vdm.Curvature_Higgs_CT_L1) # NHiggs
          /\ vdm' = vdm
          /\ last' = Crashed("set_CT_Pot_Par", par)

\* The vectors a caller passes to set_CT_Pot_Par: what calc_CT just returned,
\* or a vector of its own.
CTArguments ==
    CTPoints \cup (IF last.op = "calc_CT" /\ last.outcome = "ok" THEN {last.ret} ELSE {})

Do_TripleHiggsCouplings(TripleDeriv, cpc) ==
    /\ Alive
    /\ UNCHANGED main
    /\ \/ /\ vdm.SetCurvatureDone \/ Size(vdm.vevTree) = NHiggs
          /\ vdm' = TripleHiggsCouplings(vdm, TripleDeriv, cpc, Zero)
          /\ last' = Returned("TripleHiggsCouplings", TripleDeriv, <<>>)
       \/ /\ ~vdm.SetCurvatureDone /\ Size(vdm.vevTree) # NHiggs
          /\ \E oob \in Indeterminate :
                /\ vdm' = TripleHiggsCouplings(vdm, TripleDeriv, cpc, oob)
                /\ last' = Returned("TripleHiggsCouplings", TripleDeriv, <<>>)
       \/ /\ ~vdm.SetCurvatureDone /\ Size(vdm.vevTree) # NHiggs
          /\ vdm' = vdm
          /\ last' = Crashed("TripleHiggsCouplings", TripleDeriv)

\* The legend of the triple couplings: a const member function.
Do_addLegendTripleCouplings ==
    /\ Alive
    /\ UNCHANGED main
    /\ vdm' = vdm
    /\ last' = Returned("addLegendTripleCouplings", <<>>, addLegendTripleCouplings)

\* The lifecycle: every operation of the instance, on a regular record and a
\* regular parameter vector.
Next ==
    \/ \E linestr \in {RecA}, tmp0 \in Indeterminate :
          Do_ReadAndSet(linestr, Vec(nPar, Zero), tmp0)
    \/ \E par \in {ParRegular} : Do_set_gen(par)
    \/ Do_SetCurvatureArrays
    \/ \E cpc \in CPCResults : Do_CalculatePhysicalCouplings(cpc)
    \/ \E w \in WeinbergInputs : Do_calc_CT(w)
    \/ \E par \in CTArguments : Do_set_CT_Pot_Par(par)
    \/ \E t \in TripleDerivs, cpc \in CPCResults : Do_TripleHiggsCouplings(t, cpc)
    \/ Do_addLegendTripleCouplings

Spec == Init /\ [][Next]_vars

\* Parameter ingestion: records and parameter vectors of every shape, with and
\* without an index column, and the population of the tree-level tensors.
NextIngest ==
    \/ \E b \in BOOLEAN : Do_setUseIndexCol(b)
    \/ \E linestr \in Records, tmp0 \in Indeterminate :
          Do_ReadAndSet(linestr, Vec(nPar, Zero), tmp0)
    \/ \E par \in ParPoints : Do_set_gen(par)
    \/ Do_SetCurvatureArrays

SpecIngest == Init /\ [][NextIngest]_vars

\* Renormalisation: parameter points, the diagonaliser, and calc_CT on
\* one-loop derivatives of every kind with its result, or a vector of the
\* caller, installed by set_CT_Pot_Par.
NextCT ==
    \/ \E par \in ParPointsCT : Do_set_gen(par)
    \/ \E cpc \in CPCResults : Do_CalculatePhysicalCouplings(cpc)
    \/ \E w \in WeinbergInputsCT : Do_calc_CT(w)
    \/ \E par \in CTArguments : Do_set_CT_Pot_Par(par)

SpecCT == Init /\ [][NextCT]_vars

\* The basis rotation: a parameter point, the diagonaliser with rotation
\* matrices of several kinds, and TripleHiggsCouplings.
NextRotate ==
    \/ \E par \in {ParRegular} : Do_set_gen(par)
    \/ \E cpc \in CPCResultsRotate : Do_CalculatePhysicalCouplings(cpc)
    \/ \E t \in TripleDerivsRotate, cpc \in CPCResultsRotate : Do_TripleHiggsCouplings(t, cpc)

SpecRotate == Init /\ [][NextRotate]_vars

\* ------------------------------------------------------------------------
\* PlotEWBG_mu: main
\* ------------------------------------------------------------------------
\* Command lines: by position (six arguments, a seventh y or n, line 1,
\* line 0, zero steps, an unknown model, a step count that is no number, a
\* config file named y), too few arguments, --help, and by prefix (in the
\* order of the help text, with --config= first and --TerminalOutput=y or
\* =n, with zero steps, without --line=).
ArgLists ==
    { <<"vdm", "in.tsv", "out.tsv", "2", "2", "cfg.ini">>,
      <<"vdm", "in.tsv", "out.tsv", "2", "3", "cfg.ini", "y">>,
      <<"vdm", "in.tsv", "out.tsv", "2", "2", "cfg.ini", "n">>,
      <<"vdm", "in.tsv", "out.tsv", "1", "1", "cfg.ini">>,
      <<"vdm", "in.tsv", "out.tsv", "0", "2", "cfg.ini">>,
      <<"vdm", "in.tsv", "out.tsv", "2", "0", "cfg.ini">>,
      <<"nomodel", "in.tsv", "out.tsv", "2", "2", "cfg.ini">>,
      <<"vdm", "in.tsv", "out.tsv", "2", "many", "cfg.ini">>,
      <<"vdm", "in.tsv", "out.tsv", "2", "2", "y", "n">>,
      <<>>,
      <<"vdm", "in.tsv", "out.tsv", "2", "2">>,
      <<"--help">>,
      <<"--help", "vdm", "in.tsv", "out.tsv", "2", "2", "cfg.ini">>,
      <<"--model=vdm", "--input=in.tsv", "--output=out.tsv", "--Line=2",
        "--NumberOfSteps=2", "--config=cfg.ini">>,
      <<"--config=cfg.ini", "--model=vdm", "--input=in.tsv", "--output=out.tsv",
        "--line=3", "--numberofsteps=3", "--TerminalOutput=y">>,
      <<"--model=vdm", "--input=in.tsv", "--output=out.tsv", "--line=1",
        "--numberofsteps=1", "--config=cfg.ini", "--terminaloutput=n">>,
      <<"--model=vdm", "--input=in.tsv", "--output=out.tsv", "--line=2",
        "--numberofsteps=0", "--config=cfg.ini">>,
      <<"--model=vdm", "--input=in.tsv", "--output=out.tsv", "--vw=0.2",
        "--numberofsteps=2", "--config=cfg.ini">> }

\* Input files: empty, or of one to four lines, the last line ending with the
\* file or with a newline.
InputFiles ==
    {[lines |-> 0, eofAtLast |-> FALSE]}
    \cup {[lines |-> n, eofAtLast |-> e] : n \in 1 .. 4, e \in BOOLEAN}

\* The file system: whether the input file can be opened and whether the
\* output file can be created.
FileSystems ==
    { [infileGood |-> TRUE, outfileGood |-> TRUE],
      [infileGood |-> FALSE, outfileGood |-> TRUE],
      [infileGood |-> TRUE, outfileGood |-> FALSE] }

InitMain ==
    /\ vdm = Class_VDM(CHOOSE smc \in SMConstantsChoices : TRUE, Zero)
    /\ last = NoCall
    /\ \E args \in ArgLists, file \in InputFiles, fs \in FileSystems :
          main = MainStart(args, file, fs)

\* return EXIT_SUCCESS; / return EXIT_FAILURE; and the handlers of lines
\* 282-289: main is left with the status code.
Return(m, code) == [m EXCEPT !.pc = "done", !.exit = code]

\* const auto args = getCLIArguments(argc, argv);   (line 164) with the
\* handlers catch(int) and catch(exception&) of lines 282-289.  The help
\* text is printed under the condition of line 59.
Main_getCLIArguments ==
    /\ main.pc = "start"
    /\ LET argc == Len(main.args) + 1
           r == getCLIArguments(argc, main.args)
           m1 == [main EXCEPT !.help = (argc < 7 \/ main.args[1] = "--help"),
                              !.res = r.ret]
       IN  main' = CASE r.outcome = "ok" -> [m1 EXCEPT !.pc = "parsed"]
                     [] r.outcome = "throw int" -> Return(m1, "EXIT_SUCCESS")
                     [] OTHER -> Return(m1, "EXIT_FAILURE")
    /\ UNCHANGED <<vdm, last>>

\* Lines 166-199: the model check, the EWBG interface built from argv[6],
\* the check of Line, the input and the output stream, the model of FChoose.
\* A stream is good when the file system allows it and the name is not empty.
Main_Setup ==
    /\ main.pc = "parsed"
    /\ LET args == main.res
           m1 == [main EXCEPT !.EtaInterface = main.args[6]]
           m2 == [m1 EXCEPT !.linecounter = 1, !.infile = args.InputFile]
           m3 == [m2 EXCEPT !.outfile = args.OutputFile]
       IN  main' =
             IF args.Model = "NotSet" THEN Return(main, "EXIT_FAILURE")
             ELSE IF args.Line < 1 THEN Return(m1, "EXIT_FAILURE")
             ELSE IF ~(main.fs.infileGood /\ args.InputFile # "")
                  THEN Return([m1 EXCEPT !.linecounter = 1], "EXIT_FAILURE")
             ELSE IF ~(main.fs.outfileGood /\ args.OutputFile # "")
                  THEN Return(m2, "EXIT_FAILURE")
             ELSE [m3 EXCEPT !.modelPointer = args.Model, !.pc = "loop"]
    /\ UNCHANGED <<vdm, last>>

\* One pass of while(getline(infile, linestr)) (lines 200-228, 273-279):
\* getline fails at the end of the file and the loop is left; otherwise the
\* next line is read (eofbit is set when the line ended with the file), the
\* break of line 202 is tested, the header is written for linecounter 1, and
\* on the line asked for initModel is called and the scan entered; any other
\* line ends the pass with linecounter++ and the eof test of line 274.
Main_getline ==
    /\ main.pc = "loop"
    /\ LET n == main.linesRead + 1
           m1 == [main EXCEPT !.linesRead = n,
                              !.eof = (n = main.file.lines /\ main.file.eofAtLast)]
           m2 == IF main.linecounter = 1 THEN [m1 EXCEPT !.headers = @ + 1] ELSE m1
           m3 == [m2 EXCEPT !.linecounter = @ + 1]
       IN  main' =
             IF main.linesRead = main.file.lines THEN Return(main, "EXIT_SUCCESS")
             ELSE IF LoopBreaks(main.linecounter, main.res.Line)
                  THEN Return(m1, "EXIT_SUCCESS")
             ELSE IF main.res.Line = main.linecounter
                  THEN [m2 EXCEPT !.initModel = Append(@, n), !.pc = "scan", !.step = 0]
             ELSE IF m3.eof THEN Return(m3, "EXIT_SUCCESS")
             ELSE m3
    /\ UNCHANGED <<vdm, last>>

\* One pass of for(int step=0; step<args.NumberOfSteps; step++) (lines
\* 235-271): the scale is reset with mu_factor and a row is written when the
\* phase-transition finder reports StatusFlag 1; after the last step the
\* line ends with linecounter++ and the eof test (lines 273-279).
Main_ScanStep ==
    /\ main.pc = "scan"
    /\ LET m3 == [main EXCEPT !.linecounter = @ + 1, !.pc = "loop"]
       IN  IF main.step < main.res.NumberOfSteps
           THEN \E StatusFlag \in {0, 1} :
                   main' = [main EXCEPT
                              !.factors = Append(@, mu_factor(main.step,
                                                              main.res.NumberOfSteps)),
                              !.rows = IF StatusFlag = 1 THEN @ + 1 ELSE @,
                              !.step = @ + 1]
           ELSE main' = IF m3.eof THEN Return(m3, "EXIT_SUCCESS") ELSE m3
    /\ UNCHANGED <<vdm, last>>

NextMain ==
    \/ Main_getCLIArguments
    \/ Main_Setup
    \/ Main_getline
    \/ Main_ScanStep

\* A run of PlotEWBG_mu on every command line, input file and file system.
SpecMain == InitMain /\ [][NextMain]_vars

\* main is one sequential thread: the step it stands at is taken.
SpecMainFair == SpecMain /\ WF_vars(NextMain)

\* ------------------------------------------------------------------------
\* Views of the instance and of a record
\* ------------------------------------------------------------------------
\* The tree-level tensors SetCurvatureArrays writes (lines 776-1236).
TreeTensors(o) ==
    <<o.HiggsVev, o.Curvature_Higgs_L1, o.Curvature_Higgs_L2, o.Curvature_Higgs_L4,
      o.Curvature_Gauge_G2H2, o.Curvature_Lepton_F2H1, o.Curvature_Quark_F2H1>>

\* The Lagrangian parameters and the tree-level VEV set_gen writes.
Lagrangian(o) ==
    <<o.lambdaH, o.lambdaS, o.kappa, o.muHSq, o.muSSq, o.gX, o.vevTreeMin, o.vevTree>>

\* The counterterm parameters and tensors set_CT_Pot_Par writes.
Counterterms(o) ==
    <<o.dmuHSq, o.dlambdaH, o.dkappa, o.dmuSSq, o.dlambdaS,
      o.dT1, o.dT2, o.dT3, o.dT4, o.dT5, o.dT6,
      o.Curvature_Higgs_CT_L1, o.Curvature_Higgs_CT_L2, o.Curvature_Higgs_CT_L4>>

\* The stored tensors are the ones SetCurvatureArrays computes from the
\* parameters and the vevTree the instance holds now.
TensorsCurrent(o) ==
    /\ o.HiggsVev = o.vevTree
    /\ o.Curvature_Higgs_L2 = Curvature_Higgs_L2_of(o)
    /\ o.Curvature_Higgs_L4 = Curvature_Higgs_L4_of(o)
    /\ o.Curvature_Gauge_G2H2 = Curvature_Gauge_G2H2_of(o)
    /\ o.Curvature_Lepton_F2H1 = Curvature_Lepton_F2H1_of(o)
    /\ o.Curvature_Quark_F2H1 = Curvature_Quark_F2H1_of(o)

\* The three output tensors of TripleHiggsCouplings are filled.
CouplingsRotated(o) ==
    /\ o.SetCurvatureDone /\ o.CalcCouplingsdone
    /\ DOMAIN o.TripleHiggsCorrectionsCWPhysical = Idx3
    /\ DOMAIN o.TripleHiggsCorrectionsTreePhysical = Idx3
    /\ DOMAIN o.TripleHiggsCorrectionsCTPhysical = Idx3

\* The tokens ReadAndSet takes as fields 1..6: those after the index column
\* when UseIndexCol is set.
Fields(linestr, useIndexCol) ==
    IF useIndexCol /\ Len(linestr) > 0 THEN Tail(linestr) ELSE linestr

\* The record holds the index column, if one is expected, and six numbers.
Complete(linestr, useIndexCol) ==
    LET n == IF useIndexCol THEN 7 ELSE 6
    IN  /\ Len(linestr) >= n
        /\ \A i \in 1 .. n : linestr[i][1] = "num"

\* Every double and every tensor entry parameter ingestion stores is finite.
IngestedFinite(o) ==
    /\ \A x \in {o.vs, o.lambdaH, o.lambdaS, o.kappa, o.gX, o.muHSq, o.muSSq} : IsFinite(x)
    /\ AllFinite(o.Curvature_Higgs_L2)
    /\ AllFinite(o.Curvature_Higgs_L4)
    /\ AllFinite(o.Curvature_Gauge_G2H2)

\* ------------------------------------------------------------------------
\* C1
\* ------------------------------------------------------------------------
\* C1: calc_CT returns a counterterm vector exactly when both gates
\* SetCurvatureDone and CalcCouplingsdone are true; with either gate false,
\* as on a freshly constructed instance, it throws and returns no vector.
C1_GateEnforced ==
    last.op = "calc_CT" =>
        /\ last.outcome \in {"ok", "throw"}
        /\ (last.outcome = "ok") <=> (vdm.SetCurvatureDone /\ vdm.CalcCouplingsdone)
        /\ last.outcome = "ok" => Size(last.ret) = nParCT
        /\ last.outcome = "throw" => last.ret = EmptyVec

\* C1 witness: calc_CT threw with the curvature populated and the couplings
\* not yet computed.
C1_ThrewBetweenGates ==
    /\ last.op = "calc_CT" /\ last.outcome = "throw"
    /\ vdm.SetCurvatureDone /\ ~vdm.CalcCouplingsdone

\* ------------------------------------------------------------------------
\* C2
\* ------------------------------------------------------------------------
\* C2: TripleHiggsCouplings called before the curvature is populated or the
\* couplings are diagonalised fails: it throws and leaves the instance as
\* it was (no SetCurvatureArrays, no CalculatePhysicalCouplings, no
\* TripleHiggsCorrections*Physical tensor written).  Stated for the
\* instances set_gen has run on, where every read of the call is defined.
C2_EarlyCallFails ==
    [][(/\ last'.op = "TripleHiggsCouplings"
        /\ Size(vdm.vevTree) = NHiggs
        /\ ~(vdm.SetCurvatureDone /\ vdm.CalcCouplingsdone))
        => (last'.outcome = "throw" /\ vdm' = vdm)]_vars

C4_PopulatedOnce ==
    [][(/\ vdm.SetCurvatureDone
        /\ Size(vdm.vevTree) = NHiggs
        /\ last'.op \in {"ReadAndSet", "set_gen", "SetCurvatureArrays",
                         "TripleHiggsCouplings"})
        => TreeTensors(vdm') = TreeTensors(vdm)]_vars

\* C4 amended: the gate is tested by the callers, not by SetCurvatureArrays.
\* While SetCurvatureDone is true, ReadAndSet, set_gen and
\* TripleHiggsCouplings leave the tree-level tensors as they were; a direct
\* call of SetCurvatureArrays on an instance set_gen has run on
\* re-initialises them and writes them again from the parameters the
\* instance holds at that moment.
C4_GuardedByCallers ==
    [][/\ (vdm.SetCurvatureDone
              /\ last'.op \in {"ReadAndSet", "set_gen", "TripleHiggsCouplings"})
          => TreeTensors(vdm') = TreeTensors(vdm)
       /\ (/\ vdm.SetCurvatureDone /\ Size(vdm.vevTree) = NHiggs
           /\ last'.op = "SetCurvatureArrays")
          => (vdm'.SetCurvatureDone /\ TensorsCurrent(vdm'))]_vars

\* C4 witness: set_gen has run on a populated instance with another
\* parameter point and the tensors still are those of the first one.
C4_SecondSetGenSkipped ==
    /\ last.op = "set_gen" /\ vdm.SetCurvatureDone
    /\ vdm.Curvature_Higgs_L2 # Curvature_Higgs_L2_of(vdm)

\* ------------------------------------------------------------------------
\* C5
\* ------------------------------------------------------------------------
\* C5 as stated: once set_gen has completed (vevTree is sized), no operation
\* changes lambdaH, lambdaS, kappa, muHSq, muSSq, gX, vevTreeMin or vevTree.
C5_ImmutableAfterSetGen ==
    [][Size(vdm.vevTree) = NHiggs => Lagrangian(vdm') = Lagrangian(vdm)]_vars

\* C5 amended: only set_gen, called directly or by ReadAndSet, writes the
\* Lagrangian parameters and vevTreeMin/vevTree, and every such call, the
\* first or a later one, overwrites them with the values of its argument
\* (vs = par[3], gX = par[5] / par[3], vevTreeMin = (C_vev0, par[3])); no
\* other operation changes them.
C5_OnlySetGenWrites ==
    [][/\ last'.op \notin {"ReadAndSet", "set_gen"}
          => Lagrangian(vdm') = Lagrangian(vdm)
       /\ last'.op \in {"ReadAndSet", "set_gen"}
          => LET par == IF last'.op = "set_gen" THEN last'.arg ELSE last'.ret
             IN  /\ vdm'.vs = par[3]
                 /\ vdm'.gX = Div(par[5], par[3])
                 /\ vdm'.vevTreeMin[0] = vdm'.SMConstants.C_vev0
                 /\ vdm'.vevTreeMin[1] = par[3]
                 /\ vdm'.vevTree = MinimizeOrderVEV(vdm'.vevTreeMin)]_vars

\* C5 witness: a second set_gen has replaced the hidden VEV an earlier
\* ReadAndSet had derived (the tensors still hold the earlier point).
C5_SecondPointStored ==
    /\ last.op = "set_gen" /\ vdm.vs = last.arg[3]
    /\ vdm.SetCurvatureDone
    /\ vdm.HiggsVev # vdm.vevTree

\* ------------------------------------------------------------------------
\* C6
\* ------------------------------------------------------------------------
\* C6 as stated: whenever SetCurvatureDone is true and set_gen has sized
\* vevTree, the stored tree-level tensors and HiggsVev are the ones
\* SetCurvatureArrays computes from the current parameters and vevTree.
C6_TensorsFollowParameters ==
    (vdm.SetCurvatureDone /\ Size(vdm.vevTree) = NHiggs) => TensorsCurrent(vdm)

\* C6 amended: the stored tensors and HiggsVev are the ones of the current
\* parameters right after a population on an instance set_gen has sized,
\* and they stay so under every operation other than ReadAndSet and set_gen.
\* A later ReadAndSet or set_gen changes the parameters and skips the
\* population (line 276), so the tensors keep the earlier point until
\* SetCurvatureArrays is called directly.
C6_CurrentUntilNextPoint ==
    [][/\ (/\ last'.outcome = "ok"
           /\ Size(vdm'.vevTree) = NHiggs
           /\ \/ last'.op = "SetCurvatureArrays"
              \/ (~vdm.SetCurvatureDone
                    /\ last'.op \in {"ReadAndSet", "set_gen", "TripleHiggsCouplings"}))
          => (vdm'.SetCurvatureDone /\ TensorsCurrent(vdm'))
       /\ (/\ vdm.SetCurvatureDone /\ TensorsCurrent(vdm)
           /\ last'.op \notin {"ReadAndSet", "set_gen"})
          => TensorsCurrent(vdm')]_vars

\* C6 witness: the tensors of a populated instance are those of its
\* parameters after the couplings were computed and the counterterms set.
C6_CurrentAfterLaterStages ==
    /\ last.op = "set_CT_Pot_Par" /\ last.outcome = "ok"
    /\ vdm.SetCurvatureDone /\ vdm.CalcCouplingsdone
    /\ Size(vdm.vevTree) = NHiggs
    /\ TensorsCurrent(vdm)

\* ------------------------------------------------------------------------
\* C7
\* ------------------------------------------------------------------------
\* C7: the lifecycle only moves forward.  No operation sets
\* SetCurvatureDone or CalcCouplingsdone back to false, and an instance whose
\* couplings are rotated stays so under every further call.
C7_GatesNeverRevert ==
    [][/\ vdm.SetCurvatureDone => vdm'.SetCurvatureDone
       /\ vdm.CalcCouplingsdone => vdm'.CalcCouplingsdone
       /\ CouplingsRotated(vdm) => CouplingsRotated(vdm')]_vars

\* C7 witness: SetCurvatureArrays was called again on an instance whose
\* couplings are rotated, and it still is in that state.
C7_RotatedThenRepopulated ==
    /\ last.op = "SetCurvatureArrays" /\ last.outcome = "ok"
    /\ CouplingsRotated(vdm)
    /\ Size(vdm.vevTree) = NHiggs

\* ------------------------------------------------------------------------
\* C8
\* ------------------------------------------------------------------------
\* C8 as stated: of the six fields of a complete record, field 3 is the
\* mixing angle alpha, field 4 the electroweak VEV v (handed on as par[2]),
\* field 5 the mass MX and field 6 the coupling gX (vs = MX / gX).
C8_OrderAlphaVevMass ==
    (last.op = "ReadAndSet" /\ Complete(last.arg, vdm.UseIndexCol))
    => LET f == Fields(last.arg, vdm.UseIndexCol)
       IN  /\ vdm.MH1 = f[1][2] /\ vdm.MH2 = f[2][2]
           /\ vdm.alpha = f[3][2]
           /\ last.ret[2] = f[4][2]
           /\ vdm.MX = f[5][2]
           /\ last.ret[3] = Div(f[5][2], f[6][2])

\* C8 amended: of the six fields of a complete record (after one leading
\* column iff UseIndexCol is set), fields 1 and 2 are MH1 and MH2, field 3
\* is the mass MX, field 4 the mixing angle alpha, field 5 the electroweak
\* VEV v and field 6 the coupling gX; set_gen receives
\* par = (MH1, MH2, v, MX / gX, alpha, MX).
C8_OrderMassAlphaVev ==
    (last.op = "ReadAndSet" /\ Complete(last.arg, vdm.UseIndexCol))
    => LET f == Fields(last.arg, vdm.UseIndexCol)
       IN  /\ vdm.MH1 = f[1][2] /\ vdm.MH2 = f[2][2]
           /\ vdm.MX = f[3][2]
           /\ vdm.alpha = f[4][2]
           /\ last.ret = ParVec(f[1][2], f[2][2], f[5][2], Div(f[3][2], f[6][2]),
                                f[4][2], f[3][2])
           /\ vdm.vs = Div(f[3][2], f[6][2])
           /\ vdm.gX = Div(f[3][2], Div(f[3][2], f[6][2]))

\* C8 witness: a complete record with a leading index column was read with
\* UseIndexCol set, its fields 3, 4 and 5 all different.
C8_ReadWithIndexColumn ==
    /\ last.op = "ReadAndSet" /\ vdm.UseIndexCol
    /\ Complete(last.arg, TRUE)
    /\ vdm.MX = last.arg[4][2] /\ vdm.alpha = last.arg[5][2]
    /\ Cardinality({last.arg[4], last.arg[5], last.arg[6]}) = 3

\* ------------------------------------------------------------------------
\* C9
\* ------------------------------------------------------------------------
\* C9: ReadAndSet given a record with fewer than six numeric fields, or with
\* a token that is no number, signals a parse error: it throws, does not
\* call set_gen and changes no member of the instance.
C9_MalformedRecordRejected ==
    [][(last'.op = "ReadAndSet" /\ ~Complete(last'.arg, vdm.UseIndexCol))
        => (last'.outcome = "throw" /\ vdm' = vdm)]_vars

\* ------------------------------------------------------------------------
\* C10
\* ------------------------------------------------------------------------
\* C10: ReadAndSet of a complete record whose field gX is zero, and set_gen
\* with par[2] = 0 or par[3] = 0, fail with an error and store no non-finite
\* value in vs, lambdaH, lambdaS, kappa, gX or the curvature tensors.
C10_ZeroDivisorRejected ==
    [][(\/ /\ last'.op = "ReadAndSet"
           /\ Complete(last'.arg, vdm.UseIndexCol)
           /\ Fields(last'.arg, vdm.UseIndexCol)[6][2] = Zero
        \/ /\ last'.op = "set_gen"
           /\ (last'.arg[2] = Zero \/ last'.arg[3] = Zero))
        => (last'.outcome = "throw" /\ IngestedFinite(vdm'))]_vars

\* ------------------------------------------------------------------------
\* C11
\* ------------------------------------------------------------------------
\* C11: for every position k in 0..10 the label addLegendCT gives at k names
\* the counterterm calc_CT stores at position k: once the vector calc_CT
\* returned is installed by set_CT_Pot_Par, the counterterm of that name
\* holds the entry k of the vector.  Stated for the instances set_gen has
\* run on.
C11_LegendNamesOutputColumns ==
    [][(/\ Size(vdm.vevTree) = NHiggs
        /\ last.op = "calc_CT" /\ last.outcome = "ok"
        /\ last'.op = "set_CT_Pot_Par" /\ last'.outcome = "ok"
        /\ last'.arg = last.ret)
        => \A k \in 0 .. (nParCT - 1) : vdm'[addLegendCT[k]] = last.ret[k]]_vars


\* A call of calc_CT that returned, followed by the call of set_CT_Pot_Par
\* that installs the vector it returned.
CalcCTInstalled ==
    /\ Size(vdm.vevTree) = NHiggs
    /\ last.op = "calc_CT" /\ last.outcome = "ok"
    /\ last'.op = "set_CT_Pot_Par" /\ last'.outcome = "ok"
    /\ last'.arg = last.ret

\* C12: the ordering calc_CT produces is the ordering set_CT_Pot_Par
\* consumes: once the vector calc_CT returned is installed, each of the
\* eleven counterterms dmuHSq, dlambdaH, dkappa, dmuSSq, dlambdaS, dT1..dT6
\* holds the value of the formula of its own name, evaluated on the one-loop
\* derivatives the call of calc_CT obtained.
C12_ProducedOrderIsConsumedOrder ==
    [][CalcCTInstalled
        => LET named == calc_CT_Named(vdm, last.arg.Nabla, last.arg.Hesse)
           IN  \A name \in DOMAIN named : vdm'[name] = named[name]]_vars

\* A vector of calc_CT whose entries 2, 3, 4 differ pairwise is installed.
C12_DistinctCountertermsInstalled ==
    /\ last.op = "set_CT_Pot_Par" /\ last.outcome = "ok"
    /\ vdm.CalcCouplingsdone
    /\ \E w \in WeinbergInputsCT : last.arg = calc_CT(vdm, w.Nabla, w.Hesse).ret
    /\ Cardinality({vdm.dkappa, vdm.dmuSSq, vdm.dlambdaS}) = 3

\* C13 as stated: after calc_CT followed by set_CT_Pot_Par, in every field
\* direction i the sum Curvature_Higgs_L1[i] + Curvature_Higgs_CT_L1[i] +
\* (one-loop gradient component i) is zero.
C13_RankOneSumVanishes ==
    [][CalcCTInstalled
        => \A i \in HiggsIdx :
              Add(Add(vdm'.Curvature_Higgs_L1[i], vdm'.Curvature_Higgs_CT_L1[i]),
                  At(last.arg.Nabla, i)) = Zero]_vars

\* C13: after calc_CT followed by set_CT_Pot_Par the sum
\* Curvature_Higgs_L1[i] + Curvature_Higgs_CT_L1[i] + (one-loop gradient
\* component i) is zero in the directions 0, 1, 3, 5 that carry no VEV; in
\* direction 2 it is HesseWeinberg(3,3) * v and in direction 4 it is
\* HesseWeinberg(5,5) * vs.
C13_RankOneSumIsHessianOffset ==
    [][CalcCTInstalled
        => \A i \in HiggsIdx :
              Add(Add(vdm'.Curvature_Higgs_L1[i], vdm'.Curvature_Higgs_CT_L1[i]),
                  At(last.arg.Nabla, i))
              = IF i = 2 THEN Mul(HesseWeinberg(last.arg.Hesse, 3, 3), vdm.v)
                ELSE IF i = 4 THEN Mul(HesseWeinberg(last.arg.Hesse, 5, 5), vdm.vs)
                ELSE Zero]_vars

\* A vector of calc_CT is installed whose rank-1 sum is nonzero in the
\* direction 2 and zero in the direction 3, for a gradient nonzero in both.
C13_OffsetInstalled ==
    /\ last.op = "set_CT_Pot_Par" /\ last.outcome = "ok"
    /\ vdm.CalcCouplingsdone
    /\ \E w \in WeinbergInputsCT :
          /\ last.arg = calc_CT(vdm, w.Nabla, w.Hesse).ret
          /\ At(w.Nabla, 2) # Zero /\ At(w.Nabla, 3) # Zero
          /\ Add(Add(vdm.Curvature_Higgs_L1[2], vdm.Curvature_Higgs_CT_L1[2]),
                 At(w.Nabla, 2)) # Zero
          /\ Add(Add(vdm.Curvature_Higgs_L1[3], vdm.Curvature_Higgs_CT_L1[3]),
                 At(w.Nabla, 3)) = Zero

\* C14: tadpole matching.  With the counterterms of calc_CT installed by
\* set_CT_Pot_Par, the first derivative of the counterterm potential at the
\* tree VEV, CT_L1[i] + sum_j CT_L2[i][j] v_j + (1/6) sum_jkl
\* CT_L4[i][j][k][l] v_j v_k v_l, is minus the one-loop gradient component i
\* in every field direction i, for every gradient and every Hessian.
C14_TadpoleMatching ==
    [][CalcCTInstalled
        => \A i \in HiggsIdx :
              FirstDerivative(vdm'.Curvature_Higgs_CT_L1, vdm'.Curvature_Higgs_CT_L2,
                              vdm'.Curvature_Higgs_CT_L4, vdm'.vevTree, i)
              = Neg(At(last.arg.Nabla, i))]_vars

\* Counterterms of calc_CT are installed for a gradient nonzero in every
\* direction and a Hessian with a nonzero entry (2,4); the counterterm
\* gradient in the direction 2 has the contributions of CT_L1, CT_L2, CT_L4.
C14_TadpolesInstalled ==
    /\ last.op = "set_CT_Pot_Par" /\ last.outcome = "ok"
    /\ vdm.CalcCouplingsdone
    /\ \E w \in WeinbergInputsCT :
          /\ last.arg = calc_CT(vdm, w.Nabla, w.Hesse).ret
          /\ \A i \in HiggsIdx : At(w.Nabla, i) # Zero
          /\ HesseWeinberg(w.Hesse, 2, 4) # Zero
    /\ vdm.dT3 # Zero /\ vdm.dmuHSq # Zero /\ vdm.dlambdaH # Zero /\ vdm.dkappa # Zero
    /\ vdm.dT3 # FirstDerivative(vdm.Curvature_Higgs_CT_L1, vdm.Curvature_Higgs_CT_L2,
                                 vdm.Curvature_Higgs_CT_L4, vdm.vevTree, 2)

\* C15: mass matching.  With the counterterms of calc_CT installed by
\* set_CT_Pot_Par, for a symmetric one-loop Hessian and nonzero v and vs the
\* counterterm Hessian at the tree VEV, CT_L2[i][j] + (1/2) sum_kl
\* CT_L4[i][j][k][l] v_k v_l, is minus the one-loop Hessian entry (i,j) for
\* every pair (i,j) of the VEV-carrying directions 2 and 4.
C15_MassMatching ==
    [][(/\ CalcCTInstalled
        /\ vdm.v # Zero /\ vdm.vs # Zero
        /\ \A i, j \in HiggsIdx : HesseWeinberg(last.arg.Hesse, i, j)
                                    = HesseWeinberg(last.arg.Hesse, j, i))
        => \A i, j \in {2, 4} :
              SecondDerivative(vdm'.Curvature_Higgs_CT_L2, vdm'.Curvature_Higgs_CT_L4,
                               vdm'.vevTree, i, j)
              = Neg(HesseWeinberg(last.arg.Hesse, i, j))]_vars

\* Counterterms of calc_CT are installed for a symmetric Hessian whose
\* entries (2,2), (2,4), (4,4) are nonzero, at nonzero v and vs.
C15_MassCountertermsInstalled ==
    /\ last.op = "set_CT_Pot_Par" /\ last.outcome = "ok"
    /\ vdm.CalcCouplingsdone
    /\ vdm.v # Zero /\ vdm.vs # Zero
    /\ \E w \in WeinbergInputsCT :
          /\ last.arg = calc_CT(vdm, w.Nabla, w.Hesse).ret
          /\ \A i, j \in HiggsIdx : HesseWeinberg(w.Hesse, i, j) = HesseWeinberg(w.Hesse, j, i)
          /\ \A i, j \in {2, 4} : HesseWeinberg(w.Hesse, i, j) # Zero
    /\ SecondDerivative(vdm.Curvature_Higgs_CT_L2, vdm.Curvature_Higgs_CT_L4,
                        vdm.vevTree, 2, 4) # Zero

C17_MassMatrixRoundTrip ==
    LET par == IF last.op = "set_gen" THEN last.arg ELSE last.ret
        Positive(x) == IsFinite(x) /\ x[1] > 0
        Sq(x) == Mul(x, x)
        v == vdm.vevTreeMin[0]
        vs == vdm.vevTreeMin[1]
        M11 == Mul(Mul(R(2), vdm.lambdaH), Sq(v))
        M12 == Mul(Mul(vdm.kappa, v), vs)
        M22 == Mul(Mul(R(2), vdm.lambdaS), Sq(vs))
    IN  (/\ last.op \in {"ReadAndSet", "set_gen"} /\ last.outcome = "ok"
         /\ last.op = "ReadAndSet" => Complete(last.arg, vdm.UseIndexCol)
         /\ \A k \in 0 .. 3 : Positive(par[k])
         /\ IsFinite(par[4]))
        => /\ Add(M11, M22) = Add(Sq(par[0]), Sq(par[1]))
           /\ Sub(Mul(M11, M22), Sq(M12)) = Mul(Sq(par[0]), Sq(par[1]))


\* C18: tree-level tadpole condition.  With muHSq and muSSq as set_gen fixed
\* them from finite couplings and VEVs, and the tensors as SetCurvatureArrays
\* filled them from these parameters, the first derivative of the tree
\* potential at the tree VEV, sum_j L2[i][j] v_j + (1/6) sum_jkl
\* L4[i][j][k][l] v_j v_k v_l, is zero in every field direction i.
C18_TreeTadpoleVanishes ==
    (/\ vdm.SetCurvatureDone /\ Size(vdm.vevTree) = NHiggs
     /\ TensorsCurrent(vdm) /\ IngestedFinite(vdm))
    => \A i \in HiggsIdx :
          FirstDerivative(Vec(NHiggs, Zero), vdm.Curvature_Higgs_L2,
                          vdm.Curvature_Higgs_L4, vdm.vevTree, i) = Zero

\* The tensors are filled from a point with nonzero VEVs, couplings and
\* mass parameters: in the directions 2 and 4 the terms of L2 and of L4 are
\* both nonzero.
C18_TadpoleTermsPopulated ==
    /\ vdm.SetCurvatureDone /\ Size(vdm.vevTree) = NHiggs
    /\ TensorsCurrent(vdm) /\ IngestedFinite(vdm)
    /\ \A x \in {vdm.v, vdm.vs, vdm.lambdaH, vdm.lambdaS, vdm.kappa,
                  vdm.muHSq, vdm.muSSq} : x # Zero
    /\ \A i \in {2, 4} :
          Mul(At(vdm.Curvature_Higgs_L2, <<i, i>>), vdm.vevTree[i]) # Zero

\* C19: TripleHiggsCouplings computes, for every triple (i,j,k) and for the
\* tree, the counterterm and the one-loop level on its own,
\* T'[i][j][k] = sum over l, m, n of R[i][l] R[j][m] R[k][n] T[l][m][n], with
\* R the rows of HiggsRotationMatrix in the order HiggsOrder and the one-loop
\* T[l][m][n] the entry of the flat third-derivative vector at the offset
\* l + m*NHiggs + n*NHiggs^2.  (All entries are finite: the terms whose
\* rotation factor is zero are left out of the sums.)
C19_ContractionFormula ==
    (last.op = "TripleHiggsCouplings" /\ last.outcome = "ok")
    => LET Rm == Stored([t \in HiggsIdx \X HiggsIdx |->
                            At(vdm.HiggsRotationMatrix, <<HiggsOrder[t[1]], t[2]>>)])
           Supp == Stored([i \in HiggsIdx |-> {l : l \in {n \in HiggsIdx : Rm[<<i, n>>] # Zero}}])
           Rotated(T, i, j, k) ==
               SumOver(Supp[i], [l \in Supp[i] |->
                 SumOver(Supp[j], [m \in Supp[j] |->
                   SumOver(Supp[k], [n \in Supp[k] |->
                     Mul(Mul(Mul(Rm[<<i, l>>], Rm[<<j, m>>]), Rm[<<k, n>>]),
                         At(T, <<l, m, n>>))])])])
           OneLoop == Stored([t \in Idx3 |->
                                 At(last.arg, t[1] + t[2] * NHiggs + t[3] * NHiggs * NHiggs)])
       IN  \A t \in Idx3 :
              /\ vdm.TripleHiggsCorrectionsTreePhysical[t]
                    = Rotated(vdm.LambdaHiggs_3, t[1], t[2], t[3])
              /\ vdm.TripleHiggsCorrectionsCTPhysical[t]
                    = Rotated(vdm.LambdaHiggs_3_CT, t[1], t[2], t[3])
              /\ vdm.TripleHiggsCorrectionsCWPhysical[t]
                    = Rotated(OneLoop, t[1], t[2], t[3])

\* TripleHiggsCouplings has rotated, on an instance set_gen has run on and
\* with a matrix that mixes three directions, a one-loop vector with an entry at the offset of (2,3,4); the
\* three outputs have nonzero entries.
C19_MixedTensorsRotated ==
    /\ last.op = "TripleHiggsCouplings" /\ last.outcome = "ok"
    /\ Size(vdm.vevTree) = NHiggs
    /\ At(vdm.HiggsRotationMatrix, <<2, 3>>) # Zero
    /\ At(last.arg, 2 + 3 * NHiggs + 4 * NHiggs * NHiggs) # Zero
    /\ vdm.TripleHiggsCorrectionsCWPhysical[<<2, 3, 4>>] # Zero
    /\ vdm.TripleHiggsCorrectionsCWPhysical[<<2, 3, 4>>]
          # vdm.TripleHiggsCorrectionsCWPhysical[<<4, 3, 2>>]
    /\ vdm.TripleHiggsCorrectionsTreePhysical[<<2, 3, 4>>] # Zero
    /\ vdm.TripleHiggsCorrectionsCTPhysical[<<2, 3, 5>>] # Zero

\* C20: for an orthogonal rotation matrix the sum of the squared entries of
\* each of the three tensors TripleHiggsCouplings produces equals the sum of
\* the squared entries of its field-basis input tensor (GaugeBasis,
\* LambdaHiggs_3, LambdaHiggs_3_CT).
C20_FrobeniusNormPreserved ==
    LET Rm == Stored([t \in HiggsIdx \X HiggsIdx |-> At(vdm.HiggsRotationMatrix, t)])
        Orthogonal ==
            \A i, j \in HiggsIdx :
                SumOver(HiggsIdx, [l \in HiggsIdx |-> Mul(Rm[<<i, l>>], Rm[<<j, l>>])])
                = IF i = j THEN R(1) ELSE Zero
        SumSq(T) ==
            SumOver(HiggsIdx, [i \in HiggsIdx |->
              SumOver(HiggsIdx, [j \in HiggsIdx |->
                SumOver(HiggsIdx, [k \in HiggsIdx |->
                  Mul(At(T, <<i, j, k>>), At(T, <<i, j, k>>))])])])
    IN  (last.op = "TripleHiggsCouplings" /\ last.outcome = "ok" /\ Orthogonal)
        => /\ SumSq(vdm.TripleHiggsCorrectionsCWPhysical) = SumSq(GaugeBasis(last.arg))
           /\ SumSq(vdm.TripleHiggsCorrectionsTreePhysical) = SumSq(vdm.LambdaHiggs_3)
           /\ SumSq(vdm.TripleHiggsCorrectionsCTPhysical) = SumSq(vdm.LambdaHiggs_3_CT)

\* TripleHiggsCouplings has rotated, on an instance set_gen has run on, with
\* the rotation of the directions 2, 3, 4: an output tensor has more nonzero
\* entries than its input, none of them the input's value.
C20_RotationSpreadsEntries ==
    /\ last.op = "TripleHiggsCouplings" /\ last.outcome = "ok"
    /\ Size(vdm.vevTree) = NHiggs
    /\ At(vdm.HiggsRotationMatrix, <<2, 3>>) = Q(2, 3)
    /\ At(vdm.HiggsRotationMatrix, <<3, 4>>) = Q(-2, 3)
    /\ At(vdm.LambdaHiggs_3_CT, <<4, 4, 4>>) = R(3)
    /\ Cardinality({t \in Idx3 : vdm.TripleHiggsCorrectionsCTPhysical[t] # Zero})
          > Cardinality({t \in Idx3 : At(vdm.LambdaHiggs_3_CT, t) # Zero})
    /\ \A t \in Idx3 : vdm.TripleHiggsCorrectionsCTPhysical[t] # R(3)

\* C21: addLegendTripleCouplings returns one label triple (Tree_, CT_, CW_
\* for the tree, the counterterm and the one-loop level, in that order) for
\* each index triple i <= j <= k over the NHiggs fields, the triples in
\* lexicographic order: 3 * NHiggs*(NHiggs+1)*(NHiggs+2)/6 labels, pairwise
\* distinct.
C21_LegendOfSortedTriples ==
    (last.op = "addLegendTripleCouplings" /\ last.outcome = "ok")
    => LET labels == last.ret
           Sorted == {t \in Idx3 : t[1] <= t[2] /\ t[2] <= t[3]}
           Before(u, t) ==
               \/ u[1] < t[1]
               \/ u[1] = t[1] /\ u[2] < t[2]
               \/ u[1] = t[1] /\ u[2] = t[2] /\ u[3] < t[3]
           Rank(t) == Cardinality({u \in Sorted : Before(u, t)})
           Name(t) == particles[t[1]] \o particles[t[2]] \o particles[t[3]]
       IN  /\ Len(labels) = 3 * ((NHiggs * (NHiggs + 1) * (NHiggs + 2)) \div 6)
           /\ Len(labels) = 3 * Cardinality(Sorted)
           /\ \A t \in Sorted :
                 /\ labels[3 * Rank(t) + 1] = "Tree_" \o Name(t)
                 /\ labels[3 * Rank(t) + 2] = "CT_" \o Name(t)
                 /\ labels[3 * Rank(t) + 3] = "CW_" \o Name(t)
           /\ \A a, b \in 1 .. Len(labels) : a # b => labels[a] # labels[b]

\* The legend has been returned: 168 labels, the first for (0,0,0) and the
\* last for (5,5,5).
C21_LegendReturned ==
    /\ last.op = "addLegendTripleCouplings" /\ last.outcome = "ok"
    /\ Len(last.ret) = 168
    /\ last.ret[1] = "Tree_G+G+G+"
    /\ last.ret[5] = "CT_G+G+G-"
    /\ last.ret[168] = "CW_H3H3H3"

\* ------------------------------------------------------------------------
\* C24 as stated: after set_gen both vevTree and HiggsVev have length NHiggs,
\* hold the current v at index 2 and the current vs at index 4, and are zero
\* at every other index.
C24_CurrentVevAtVevOrderPositions ==
    (last.op = "set_gen" /\ last.outcome = "ok")
        => \A vev \in {vdm.vevTree, vdm.HiggsVev} :
              /\ Size(vev) = NHiggs
              /\ vev[2] = vdm.v /\ vev[4] = vdm.vs
              /\ \A i \in HiggsIdx \ {2, 4} : vev[i] = Zero

\* C24: after set_gen, vevTree has length NHiggs, holds v at index 2 and vs
\* at index 4 and zero elsewhere; HiggsVev has length NHiggs, is zero outside
\* the indices 2 and 4 and is the vevTree of the set_gen that populated the
\* tensors (an earlier one if SetCurvatureDone was already set).  calc_CT
\* treats the same two directions as VEV-carrying: the tadpole counterterm of
\* direction i is -Nabla(i) outside {2, 4} and Hesse(i+1, i+1) * vevTree[i]
\* - Nabla(i) for i in {2, 4} (Goldstone partners 3 and 5), and dkappa is
\* -Hesse(2,4) / (vevTree[2] * vevTree[4]).
C24_VevAtVevOrderPositions ==
    [][/\ (last'.op = "set_gen" /\ last'.outcome = "ok")
            => /\ Size(vdm'.vevTree) = NHiggs /\ Size(vdm'.HiggsVev) = NHiggs
               /\ vdm'.vevTree[2] = vdm'.v /\ vdm'.vevTree[4] = vdm'.vs
               /\ \A i \in HiggsIdx \ {2, 4} :
                     vdm'.vevTree[i] = Zero /\ vdm'.HiggsVev[i] = Zero
               /\ vdm'.HiggsVev = IF vdm.SetCurvatureDone THEN vdm.HiggsVev
                                  ELSE vdm'.vevTree
       /\ (last'.op = "calc_CT" /\ last'.outcome = "ok")
            => LET H(i, j) == HesseWeinberg(last'.arg.Hesse, i, j)
                   N(i) == At(last'.arg.Nabla, i)
               IN  /\ \A i \in HiggsIdx :
                         last'.ret[5 + i] =
                            IF i \in {2, 4}
                            THEN Sub(Mul(H(i + 1, i + 1), vdm.vevTree[i]), N(i))
                            ELSE Neg(N(i))
                   /\ last'.ret[2] = Div(Div(Neg(H(2, 4)), vdm.vevTree[2]),
                                         vdm.vevTree[4])]_vars

\* calc_CT has returned on an instance whose second set_gen changed vs
\* (HiggsVev[4] is the earlier one), with tadpole counterterms of the
\* directions 2 and 4 that carry the Hessian offset.
C24_CalcCTAfterSecondPoint ==
    /\ last.op = "calc_CT" /\ last.outcome = "ok"
    /\ Size(vdm.vevTree) = NHiggs /\ Size(vdm.HiggsVev) = NHiggs
    /\ vdm.HiggsVev[4] # vdm.vevTree[4]
    /\ vdm.HiggsVev[4] # Zero /\ vdm.vevTree[4] # Zero /\ vdm.vevTree[2] # Zero
    /\ last.ret[7] # Neg(At(last.arg.Nabla, 2))
    /\ last.ret[9] # Neg(At(last.arg.Nabla, 4))

\* ------------------------------------------------------------------------
\* C28: calc_CT changes no state of the instance, whether it returns the
\* counterterm vector or fails on a gate: across every call the instance
\* after the call is the instance before it.
C28_CalcCTReadOnly ==
    [][last'.op = "calc_CT" => vdm' = vdm]_vars

\* calc_CT has returned, past both gates, counterterms that differ from the
\* ones the instance holds: storing them would have changed the instance.
C28_ReturnedOtherThanStored ==
    /\ last.op = "calc_CT" /\ last.outcome = "ok"
    /\ vdm.CalcCouplingsdone /\ vdm.SetCurvatureDone
    /\ last.ret[7] # vdm.dT3
    /\ set_CT_Pot_Par_Scalars(vdm, last.ret) # vdm

\* ------------------------------------------------------------------------
\* C29: set_CT_Pot_Par is a total overwrite of the counterterm state.  On an
\* instance whose tensors are allocated, after set_CT_Pot_Par(p) the
\* counterterm parameters and Curvature_Higgs_CT_L1/L2/L4 are what the call
\* leaves on a blank instance (they depend on p alone); a second
\* set_CT_Pot_Par(p) changes nothing; set_CT_Pot_Par(q) after it gives what
\* set_CT_Pot_Par(q) gives without it; the tree-level tensors, the Lagrangian
\* parameters and the two gates are what they were before the call.
C29_TotalOverwrite ==
    [][(/\ last'.op = "set_CT_Pot_Par" /\ last'.outcome = "ok"
        /\ Size(vdm.Curvature_Higgs_CT_L1) = NHiggs)
        => LET p == last'.arg
               blank == initVectors(Class_VDM(CHOOSE smc \in SMConstantsChoices : TRUE,
                                              Zero))
           IN  /\ Counterterms(vdm') = Counterterms(set_CT_Pot_Par(blank, p))
               /\ set_CT_Pot_Par(vdm', p) = vdm'
               /\ \A q \in CTPoints \cup {[k \in 0 .. (nParCT - 1) |-> Neg(p[k])]} :
                     set_CT_Pot_Par(vdm', q) = set_CT_Pot_Par(vdm, q)
               /\ TreeTensors(vdm') = TreeTensors(vdm)
               /\ Lagrangian(vdm') = Lagrangian(vdm)
               /\ vdm'.SetCurvatureDone = vdm.SetCurvatureDone
               /\ vdm'.CalcCouplingsdone = vdm.CalcCouplingsdone]_vars

\* set_CT_Pot_Par has installed a vector calc_CT returned, no vector of the
\* caller, with nonzero quadratic, quartic and tadpole counterterms, on an
\* instance with populated tree-level tensors.
C29_CountertermsOverwritten ==
    /\ last.op = "set_CT_Pot_Par" /\ last.outcome = "ok"
    /\ Size(vdm.Curvature_Higgs_CT_L1) = NHiggs
    /\ vdm.SetCurvatureDone /\ vdm.CalcCouplingsdone
    /\ last.arg \notin CTPoints
    /\ \A k \in 0 .. (nParCT - 1) : last.arg[k] # Zero
    /\ At(vdm.Curvature_Higgs_CT_L2, <<2, 2>>) # Zero
    /\ At(vdm.Curvature_Higgs_CT_L4, <<2, 2, 4, 4>>) # Zero
    /\ At(vdm.Curvature_Higgs_L2, <<2, 2>>) # Zero

\* ------------------------------------------------------------------------
\* C30: one single electroweak VEV.  After ReadAndSet of a complete record
\* with finite positive fields, the electroweak VEV of the record, par[2],
\* which normalises lambdaH and kappa, is the value stored as v, as
\* vevTreeMin[0] and as vevTree[2], and lambdaH is (MH1^2 cos^2 alpha +
\* MH2^2 sin^2 alpha) / (2 v^2) with the stored v.
C30_SingleElectroweakVev ==
    LET par == last.ret
        Sq(x) == Mul(x, x)
    IN  (/\ last.op = "ReadAndSet" /\ last.outcome = "ok"
         /\ Complete(last.arg, vdm.UseIndexCol)
         /\ \A k \in {0, 1, 2, 3, 5} : IsFinite(par[k]) /\ par[k][1] > 0
         /\ IsFinite(par[4]))
        => /\ par[2] = vdm.v
           /\ par[2] = vdm.vevTreeMin[0]
           /\ par[2] = vdm.vevTree[2]
           /\ vdm.lambdaH = Div(Add(Mul(Sq(par[0]), Sq(Cos(par[4]))),
                                    Mul(Sq(par[1]), Sq(Sin(par[4])))),
                                Mul(R(2), Sq(vdm.v)))

\* ------------------------------------------------------------------------
\* C22: the scale scan.  When the scan of a run with NumberOfSteps = N >= 1
\* is over, it has made exactly N steps with strictly increasing factors,
\* the first step with the factor 1/2 and the last step with the factor 3/2.
C22_ScanFromHalfToThreeHalves ==
    LET N == main.res.NumberOfSteps
        f == main.factors
    IN  (main.pc \in {"loop", "done"} /\ Len(main.initModel) = 1 /\ N >= 1)
        => /\ Len(f) = N
           /\ \A i \in 1 .. (N - 1) : Sub(f[i + 1], f[i])[1] > 0
           /\ f[1] = Q(1, 2)
           /\ f[N] = Q(3, 2)

\* C23: the TerminalOutput flag.  After the arguments are parsed,
\* TerminalOutput is true exactly when the user chose y: by an argument
\* --TerminalOutput=y (in any case of the letters of the prefix) among the
\* prefixed arguments, or by y as the seventh positional argument.
C23_TerminalOutputReflectsChoice ==
    LET args == main.args
        choseY == IF StringStartsWith(args[1], "--")
                  THEN \E i \in 1 .. Len(args) : ToLower(args[i]) = "--terminaloutput=y"
                  ELSE Len(args) >= 7 /\ args[7] = "y"
    IN  main.pc = "parsed" => main.res.TerminalOutput = choseY

\* C25: the config file.  Once the EWBG interface is constructed, the file
\* name it was given and the parsed ConfigFile are the name the user gave:
\* what follows --config= in the prefixed argument of that prefix, wherever
\* it stands, or the sixth positional argument.
C25_InterfaceFromNamedConfig ==
    LET args == main.args
        Config == {i \in 1 .. Len(args) : StringStartsWith(ToLower(args[i]), "--config=")}
        named == IF StringStartsWith(args[1], "--")
                 THEN LET i == CHOOSE i \in Config : TRUE
                      IN  SubSeq(args[i], Len("--config=") + 1, Len(args[i]))
                 ELSE args[6]
    IN  (/\ main.EtaInterface # "none"
         /\ StringStartsWith(args[1], "--") => Config # {})
        => /\ main.EtaInterface = named
           /\ main.res.ConfigFile = named

\* C26: argument validation precedes every side effect.  In a run whose
\* first argument is --help, and in a run with fewer than six arguments or
\* with a NumberOfSteps argument that parses to 0, main never opens the input
\* file, creates the output file, constructs the model or the EWBG
\* interface, and when it has returned the status is EXIT_SUCCESS for --help
\* and EXIT_FAILURE for the other two.
C26_ValidationBeforeSideEffects ==
    LET args == main.args
        help == Len(args) > 0 /\ args[1] = "--help"
        tooFew == Len(args) < 6
        Steps == {i \in 1 .. Len(args) :
                    StringStartsWith(ToLower(args[i]), "--numberofsteps=")}
        zeroSteps ==
            /\ Len(args) >= 6
            /\ IF StringStartsWith(args[1], "--")
               THEN \E i \in Steps :
                       LET n == stoi(SubSeq(args[i], Len("--numberofsteps=") + 1,
                                            Len(args[i])))
                       IN  n.outcome = "ok" /\ n.ret = 0
               ELSE stoi(args[5]).outcome = "ok" /\ stoi(args[5]).ret = 0
        untouched ==
            /\ main.pc \in {"start", "done"}
            /\ main.infile = "none" /\ main.outfile = "none"
            /\ main.modelPointer = "none" /\ main.EtaInterface = "none"
            /\ main.linesRead = 0 /\ main.headers = 0
    IN  /\ help => untouched /\ (main.pc = "done" => main.exit = "EXIT_SUCCESS")
        /\ (~help /\ (tooFew \/ zeroSteps))
              => untouched /\ (main.pc = "done" => main.exit = "EXIT_FAILURE")

\* main has returned EXIT_FAILURE for six well-formed positional arguments
\* with NumberOfSteps 0, where the input file has lines and both files could
\* have been opened.
C26_ZeroStepsRejected ==
    /\ main.pc = "done" /\ main.exit = "EXIT_FAILURE"
    /\ Len(main.args) = 6 /\ main.args[5] = "0" /\ main.args[1] = "vdm"
    /\ main.fs.infileGood /\ main.fs.outfileGood
    /\ main.file.lines >= 2
    /\ main.help = FALSE

\* C27 as stated: a run with Line >= 1 that has entered the read loop and
\* returned has written the output header exactly once.
C27_HeaderOncePerRun ==
    (main.pc = "done" /\ main.modelPointer # "none" /\ main.res.Line >= 1)
        => main.headers = 1

\* C27: the read loop.  In every run whose arguments were parsed: with
\* Line >= 1 the header is written once, together with the reading of line
\* 1, and not at all while no line has been read (an empty input file);
\* initModel is called at most once and only on the line numbered Line; no
\* line numbered greater than Line + 1 is read; with Line < 1 no file is
\* opened and the status is EXIT_FAILURE.  Every run terminates.
C27_ReadLoopBounded ==
    /\ [](LET Line == main.res.Line
              parsed == main.pc # "start" /\ main.res.NumberOfSteps # 0
          IN  /\ (parsed /\ Line >= 1)
                    => /\ main.headers = (IF main.linesRead >= 1 THEN 1 ELSE 0)
                       /\ Len(main.initModel) <= 1
                       /\ \A i \in 1 .. Len(main.initModel) : main.initModel[i] = Line
                       /\ main.linesRead <= Line + 1
                       /\ main.linesRead <= main.file.lines
              /\ (parsed /\ Line < 1)
                    => /\ main.infile = "none" /\ main.outfile = "none"
                       /\ main.linesRead = 0
                       /\ main.pc \in {"parsed", "done"}
                       /\ main.pc = "done" => main.exit = "EXIT_FAILURE")
    /\ <>(main.pc = "done")

\* A run has ended after the header, initModel on line 2 of a file of four
\* lines and a scan of several steps, having read line 3 and no further.
C27_StoppedAfterLineAskedFor ==
    /\ main.pc = "done" /\ main.exit = "EXIT_SUCCESS"
    /\ main.res.Line = 2 /\ main.file.lines = 4
    /\ main.headers = 1 /\ main.initModel = <<2>>
    /\ main.linesRead = 3
    /\ Len(main.factors) >= 2
====
